---- MODULE Spec2Model ----
(***************************************************************************)
(* Event indexing pipeline of back-it-onchain: the exponential-backoff     *)
(* retry engine (rpc-retry.util.ts and its copy in oracle.service.ts), the *)
(* IPFS gateway fallback fetcher and the CallCreated / StakeAdded handlers *)
(* of indexer.service.ts.                                                  *)
(*                                                                         *)
(* Strings whose content is inspected by the code (error messages, call    *)
(* identifiers) are sequences of one-character strings.  Fractions are     *)
(* pairs <<numerator, denominator>> of integers, so that the delay         *)
(* arithmetic of the engine is exact.                                      *)
(***************************************************************************)
EXTENDS Integers, Sequences, FiniteSets, TLC

VARIABLES policy, rt, opLog, fetchSt, store, tasks, lst, boot, probe

vars == <<policy, rt, opLog, fetchSt, store, tasks, lst, boot, probe>>

\* ------------------------------------------------------------------ bounds

\* Largest maxAttempts drawn for a policy of the retry engine.
MaxAttemptsBound == 3

\* Math.random() is drawn from the grid k / (2 * JitterSteps), so that
\* U = 2 * random - 1 ranges over -1, -1 + 1/JitterSteps, ..., 1 - 1/JitterSteps.
JitterSteps == 8

\* Number of handler invocations (event deliveries) of one run.
MaxDeliveries == 3

\* Number of 'error' events the provider emits in one run.
MaxProviderErrors == 12

\* startListening succeeds only while fewer 'error' listeners are registered.
MaxErrorHandlers == 3

\* 'error' events emitted, and reconnect timers run, while live events are
\* being handled.
MaxLiveProviderErrors == 1

MaxLiveReconnects == 1

\* ----------------------------------------------------------------- strings

UpperChars == <<"A","B","C","D","E","F","G","H","I","J","K","L","M",
                "N","O","P","Q","R","S","T","U","V","W","X","Y","Z">>

LowerChars == <<"a","b","c","d","e","f","g","h","i","j","k","l","m",
                "n","o","p","q","r","s","t","u","v","w","x","y","z">>

DigitChars == <<"0","1","2","3","4","5","6","7","8","9">>

IsDigit(c) == \E i \in 1..10 : DigitChars[i] = c

\* \w of a JavaScript regular expression: [A-Za-z0-9_]
IsWordChar(c) ==
    \/ IsDigit(c)
    \/ c = "_"
    \/ \E i \in 1..26 : UpperChars[i] = c \/ LowerChars[i] = c

LowerChar(c) ==
    IF \E i \in 1..26 : UpperChars[i] = c
    THEN LowerChars[CHOOSE i \in 1..26 : UpperChars[i] = c]
    ELSE c

\* String.prototype.toLowerCase
ToLowerCase(s) == [i \in 1..Len(s) |-> LowerChar(s[i])]

\* String.prototype.includes
Includes(s, pat) ==
    \E i \in 0..(Len(s) - Len(pat)) :
        \A k \in 1..Len(pat) : s[i + k] = pat[k]

\* /\b4[0-9]{2}\b/.test(s)
Matches4xx(s) ==
    \E i \in 1..(Len(s) - 2) :
        /\ s[i] = "4"
        /\ IsDigit(s[i + 1])
        /\ IsDigit(s[i + 2])
        /\ (i = 1 \/ ~IsWordChar(s[i - 1]))
        /\ (i + 2 = Len(s) \/ ~IsWordChar(s[i + 3]))

RECURSIVE DecimalString(_)
\* Number / BigInt .toString() and template interpolation of a non-negative integer
DecimalString(n) ==
    IF n < 10 THEN <<DigitChars[n + 1]>>
    ELSE DecimalString(n \div 10) \o <<DigitChars[(n % 10) + 1]>>

\* ------------------------------------------------------------------ errors

\* A thrown value.  isError is "instanceof Error"; cls is the class name;
\* lastError, of an RpcExhaustedError, and cause, of an RpcNonRetryableError,
\* hold zero or one error.
MkThrown(isErr, cls, msg, op, attempts, inner) ==
    [isError |-> isErr, cls |-> cls, msg |-> msg, operation |-> op,
     attempts |-> attempts, inner |-> inner]

PlainError(msg) == MkThrown(TRUE, "Error", msg, <<>>, 0, <<>>)

\* a rejection with a value that is no Error, here a string
NonErrorThrown(msg) == MkThrown(FALSE, "string", msg, <<>>, 0, <<>>)

MsgFailedAfter == <<" ","f","a","i","l","e","d"," ","a","f","t","e","r"," ">>

MsgAttempts == <<" ","a","t","t","e","m","p","t","(","s",")",":"," ">>

\* new RpcExhaustedError(operation, attempts, lastError)
RpcExhaustedError(op, attempts, lastError) ==
    MkThrown(TRUE, "RpcExhaustedError",
             <<"\"">> \o op \o <<"\"">> \o MsgFailedAfter \o DecimalString(attempts)
                 \o MsgAttempts \o lastError.msg,
             op, attempts, <<lastError>>)

\* new RpcNonRetryableError(message) thrown by an operation
FlaggedNonRetryable(msg) == MkThrown(TRUE, "RpcNonRetryableError", msg, <<>>, 0, <<>>)

MsgNonRetryableOn == <<"N","o","n","-","r","e","t","r","y","a","b","l","e"," ",
                       "e","r","r","o","r"," ","o","n"," ","\"">>

\* new RpcNonRetryableError(`Non-retryable error on "${operationName}": ${lastError.message}`, lastError)
WrappedNonRetryable(op, lastError) ==
    MkThrown(TRUE, "RpcNonRetryableError",
             MsgNonRetryableOn \o op \o <<"\"", ":", " ">> \o lastError.msg,
             <<>>, 0, <<lastError>>)

\* lastError = err instanceof Error ? err : new Error(String(err))
NormaliseError(t) == IF t.isError THEN t ELSE PlainError(t.msg)

\* ---------------------------------------------------- retryability predicates

Pat429 == <<"4","2","9">>

Pat408 == <<"4","0","8">>

Pat425 == <<"4","2","5">>

PatRateLimit == <<"r","a","t","e"," ","l","i","m","i","t">>

PatTooMany == <<"t","o","o"," ","m","a","n","y"," ","r","e","q","u","e","s","t","s">>

defaultSorobanIsRetryable(err) ==
    LET msg == ToLowerCase(err.msg) IN
    IF Includes(msg, Pat429) \/ Includes(msg, PatRateLimit) \/ Includes(msg, PatTooMany)
    THEN TRUE
    ELSE IF Matches4xx(msg) /\ ~Includes(msg, Pat408) /\ ~Includes(msg, Pat425)
    THEN FALSE
    ELSE TRUE

\* The isRetryable option: absent ("none"), defaultSorobanIsRetryable
\* ("default"), or a caller's predicate that reads the attempt index,
\* (err, attempt) => attempt < 2 ("firstOnly").
IsRetryableOptions == {"none", "default", "firstOnly"}

\* isRetryable(lastError, attempt), for a configured predicate
ApplyIsRetryable(pred, err, attempt) ==
    CASE pred = "default" -> defaultSorobanIsRetryable(err)
      [] pred = "firstOnly" -> attempt < 2
      [] OTHER -> TRUE

\* ------------------------------------------------------ classifying errors

\* An application of a pure function: its input and, once applied, its result.
NoProbe == [pc |-> "idle", input |-> <<>>, output |-> <<>>]

\* Error messages: an optional prefix, a status code or phrase, and a tail
\* in which digits may occur inside a longer number.
MessageHeads == {<<>>, <<"H","T","T","P"," ">>, <<"E">>}

MessageCores == {<<>>,
                 <<"4","0","0">>,
                 <<"4","0","4">>,
                 <<"4","0","8">>,
                 <<"4","2","5">>,
                 <<"4","2","9">>,
                 <<"5","0","0">>,
                 <<"r","a","t","e"," ","l","i","m","i","t">>,
                 <<"T","o","o"," ","M","a","n","y"," ","R","e","q","u","e","s","t","s">>,
                 <<"n","e","t","w","o","r","k"," ","t","i","m","e","o","u","t">>}

MessageTails == {<<>>,
                 <<" ","n","o","t"," ","f","o","u","n","d">>,
                 <<" ","a","t"," ","p","o","r","t"," ","4","0","8","0">>,
                 <<" ","i","n"," ","b","l","o","c","k"," ","1","4","2","9","0">>,
                 <<" ","a","f","t","e","r"," ","4","2","5","0","m","s">>}

ErrorMessages == {h \o c \o x : h \in MessageHeads, c \in MessageCores, x \in MessageTails}

\* ------------------------------------------------------------------ policy

\* The two copies of the engine: rpc-retry.util.ts ("util") and the private
\* withRetry of oracle.service.ts ("oracle"), which the indexer imports.
RetryEngines == {"util", "oracle"}

DefaultMaxAttempts == 4

DefaultBaseDelayMs == 1000

DefaultFactor == <<2, 1>>

DefaultMaxDelayMs == 30000

\* jitter, in percent: 0.2
DefaultJitterPct == 20

OpNameRpc == <<"r","p","c">>

OpNameOperation == <<"o","p","e","r","a","t","i","o","n">>

\* operationName = 'rpc' (util) or 'operation' (oracle) when the caller gives none
DefaultOperationName(engine) == IF engine = "util" THEN OpNameRpc ELSE OpNameOperation

MkPolicy(engine, n, base, factor, maxDelay, jitterPct, pred, op) ==
    [engine |-> engine, maxAttempts |-> n, baseDelayMs |-> base, factor |-> factor,
     maxDelayMs |-> maxDelay, jitterPct |-> jitterPct, isRetryable |-> pred,
     operationName |-> op]

\* ------------------------------------------------------------------- delay

RECURSIVE Pow(_, _)
\* Math.pow(x, k) for an integer x and k >= 0
Pow(x, k) == IF k = 0 THEN 1 ELSE x * Pow(x, k - 1)

\* baseDelayMs * Math.pow(factor, attempt - 1), as a fraction
UncappedDelay(pol, attempt) ==
    <<pol.baseDelayMs * Pow(pol.factor[1], attempt - 1), Pow(pol.factor[2], attempt - 1)>>

\* RawDelay without the maxDelayMs ceiling (faulty variant)
RawDelayNoCap(pol, attempt) == UncappedDelay(pol, attempt)

\* raw = Math.min(baseDelayMs * Math.pow(factor, attempt - 1), maxDelayMs), as a fraction
RawDelay(pol, attempt) ==
    LET unc == UncappedDelay(pol, attempt) IN
    IF unc[1] <= pol.maxDelayMs * unc[2] THEN unc ELSE <<pol.maxDelayMs * unc[2], unc[2]>>

RECURSIVE GCD(_, _)
\* the greatest common divisor of a >= 0 and b >= 0
GCD(a, b) == IF b = 0 THEN a ELSE GCD(b, a % b)

\* the fraction frac in lowest terms: the same number, as Math.min returns it
Reduced(frac) ==
    LET g == GCD(frac[1], frac[2]) IN <<frac[1] \div g, frac[2] \div g>>

\* Math.round of the fraction num / den (den > 0): halves round towards +infinity
MathRound(num, den) == (2 * num + den) \div (2 * den)

\* Math.random() * 2 - 1 on the grid: u / JitterSteps for u in -JitterSteps .. JitterSteps - 1
JitterDraws == (0 - JitterSteps)..(JitterSteps - 1)

\* delay = Math.max(0, Math.round(raw + raw * jitter * (Math.random() * 2 - 1)))
BackoffDelay(pol, attempt, u) ==
    LET raw == Reduced(RawDelay(pol, attempt))
        num == raw[1] * (100 * JitterSteps + pol.jitterPct * u)
        den == raw[2] * 100 * JitterSteps
        rounded == MathRound(num, den)
    IN IF rounded < 0 THEN 0 ELSE rounded

\* ------------------------------------------------------------ retry engine

Returned(v) == [kind |-> "return", value |-> v, err |-> <<>>]

Threw(e) == [kind |-> "throw", value |-> 0, err |-> <<e>>]

\* an invocation of fn: it resolves with a value or rejects with a thrown value
OpOk(v) == [ok |-> TRUE, value |-> v, thrown |-> <<>>]

OpFail(t) == [ok |-> FALSE, value |-> 0, thrown |-> <<t>>]

\* State of a withRetry call that has not been made.
RetryIdle ==
    [pc |-> "idle", attempt |-> 0, invocations |-> 0, sleeps |-> 0, warns |-> 0,
     delay |-> 0, lastError |-> <<>>, outcome |-> <<>>]

\* IsNonRetryableInstance that never recognises the flag (faulty variant)
IsNonRetryableInstanceNever(pol, err) == FALSE

\* if (lastError instanceof RpcNonRetryableError) throw lastError  (util only)
IsNonRetryableInstance(pol, err) ==
    pol.engine = "util" /\ err.cls = "RpcNonRetryableError"

\* PredicateRejects that ignores the predicate's verdict (faulty variant)
PredicateRejectsNever(pol, err, attempt) == FALSE

\* if (isRetryable && !isRetryable(lastError, attempt))  (util only)
PredicateRejects(pol, err, attempt) ==
    /\ pol.engine = "util"
    /\ pol.isRetryable # "none"
    /\ ~ApplyIsRetryable(pol.isRetryable, err, attempt)

\* IsFinalAttempt that gives up one attempt early (faulty variant)
IsFinalAttemptEarly(pol, attempt) == attempt >= pol.maxAttempts - 1

\* IsFinalAttempt of a loop without its break (faulty variant)
IsFinalAttemptNever(pol, attempt) == FALSE

\* if (attempt === maxAttempts) break
IsFinalAttempt(pol, attempt) == attempt = pol.maxAttempts

\* ExhaustedThrow that rethrows the last error unwrapped (faulty variant)
ExhaustedThrowRaw(pol, lastError) == lastError

\* throw new RpcExhaustedError(operationName, maxAttempts, lastError)
ExhaustedThrow(pol, lastError) ==
    RpcExhaustedError(pol.operationName, pol.maxAttempts, lastError)

MsgUnknownError == <<"U","n","k","n","o","w","n"," ","e","r","r","o","r">>

\* Entry of withRetry: lastError = new Error('Unknown error'), then the loop
\* head with attempt = 1; a budget below 1 falls through to the final throw.
RetryEnter(pol) ==
    IF 1 <= pol.maxAttempts
    THEN [RetryIdle EXCEPT !.pc = "call", !.attempt = 1]
    ELSE [RetryIdle EXCEPT !.pc = "done", !.attempt = 1,
                           !.outcome = <<Threw(ExhaustedThrow(pol, PlainError(MsgUnknownError)))>>]

\* One pass of the loop body: await fn() resolved or rejected with res; u is
\* the jitter draw used when the pass ends in a backoff sleep.
RetryAttempt(s, pol, res, u) ==
    LET s1 == [s EXCEPT !.invocations = @ + 1] IN
    IF res.ok
    THEN [s1 EXCEPT !.pc = "done", !.outcome = <<Returned(res.value)>>]
    ELSE LET le == NormaliseError(res.thrown[1])
             s2 == [s1 EXCEPT !.lastError = <<le>>]
         IN IF IsNonRetryableInstance(pol, le)
            THEN [s2 EXCEPT !.pc = "done", !.outcome = <<Threw(le)>>]
            ELSE IF PredicateRejects(pol, le, s.attempt)
            THEN [s2 EXCEPT !.pc = "done",
                            !.outcome = <<Threw(WrappedNonRetryable(pol.operationName, le))>>]
            ELSE IF IsFinalAttempt(pol, s.attempt)
            THEN [s2 EXCEPT !.pc = "done", !.outcome = <<Threw(ExhaustedThrow(pol, le))>>]
            ELSE [s2 EXCEPT !.pc = "sleep", !.warns = @ + 1,
                            !.delay = BackoffDelay(pol, s.attempt, u)]

\* The backoff timer fires: attempt++ and back to the loop head.
RetryWake(s, pol) ==
    LET s1 == [s EXCEPT !.sleeps = @ + 1, !.delay = 0, !.attempt = @ + 1] IN
    IF s1.attempt <= pol.maxAttempts
    THEN [s1 EXCEPT !.pc = "call"]
    ELSE [s1 EXCEPT !.pc = "done",
                    !.outcome = <<Threw(ExhaustedThrow(pol, s.lastError[1]))>>]

\* ------------------------------------------------- gateway fallback fetcher

GatewayLocal ==
    <<"h","t","t","p",":","/","/","l","o","c","a","l","h","o","s","t",":","3","0",
      "0","1","/","c","a","l","l","s","/","i","p","f","s","/">>

GatewayPinata ==
    <<"h","t","t","p","s",":","/","/","g","a","t","e","w","a","y",".","p","i","n",
      "a","t","a",".","c","l","o","u","d","/","i","p","f","s","/">>

GatewayIpfsIo ==
    <<"h","t","t","p","s",":","/","/","i","p","f","s",".","i","o","/","i","p","f",
      "s","/">>

GatewayDweb ==
    <<"h","t","t","p","s",":","/","/","d","w","e","b",".","l","i","n","k","/","i",
      "p","f","s","/">>

\* const gateways = [...]: the URL of each gateway for a content address
Gateways(cid) ==
    <<GatewayLocal \o cid, GatewayPinata \o cid, GatewayIpfsIo \o cid, GatewayDweb \o cid>>

NumGateways == 4

PatIpfsPath == <<"/","i","p","f","s","/">>

\* s.split(sep)[0]: the part of s before the first occurrence of sep
SplitFirst(s, sep) ==
    LET hits == {i \in 0..(Len(s) - Len(sep)) : \A k \in 1..Len(sep) : s[i + k] = sep[k]}
    IN IF hits = {} THEN s
       ELSE SubSeq(s, 1, CHOOSE i \in hits : \A h \in hits : i <= h)

OpPrefixFetchIpfs ==
    <<"i","n","d","e","x","e","r",":","f","e","t","c","h","I","p","f","s",":">>

OpPrefixIpfs == <<"i","p","f","s",":">>

GatewayMaxAttempts == 3

GatewayBaseDelayMs == 500

\* { maxAttempts: 3, baseDelayMs: 500, operationName: `indexer:fetchIpfs:${url.split('/ipfs/')[0]}` }
\* passed to the withRetry that indexer.service.ts imports from oracle.service.ts
GatewayPolicy(url) ==
    MkPolicy("oracle", GatewayMaxAttempts, GatewayBaseDelayMs, DefaultFactor,
             DefaultMaxDelayMs, DefaultJitterPct, "none",
             OpPrefixFetchIpfs \o SplitFirst(url, PatIpfsPath))

CidMock == <<"Q","m","M","o","c","k","C","I","D">>

\* the canned payload returned for 'QmMockCID'
\* (a JSON object is the set of its <<key, value>> pairs)
MockPayload ==
    {<<"title", "ETH will flip BTC">>,
     <<"thesis", "Ethereum has better fundamentals and yielding properties than Bitcoin.">>,
     <<"target", "0.06 BTC">>,
     <<"deadline", "2026-01-01">>}

MsgHttp == <<"H","T","T","P"," ">>

MsgFrom == <<" ","f","r","o","m"," ">>

MsgFetchFailed == <<"f","e","t","c","h"," ","f","a","i","l","e","d">>

MsgBadJson ==
    <<"U","n","e","x","p","e","c","t","e","d"," ","t","o","k","e","n"," ","<"," ",
      "i","n"," ","J","S","O","N">>

\* What the transport answers to one GET: a JSON body, a non-2xx status, a
\* network failure (or the 6 s timeout), or a 2xx body that is no JSON.
GatewayResponses ==
    {[kind |-> "json", status |-> 200], [kind |-> "status", status |-> 404],
     [kind |-> "network", status |-> 0], [kind |-> "badjson", status |-> 200]}

\* the JSON document a gateway serves for a content address
PayloadOf(cid) == {<<"title", "call conditions">>}

\* The operation handed to withRetry: fetch(url), the response.ok test and
\* response.json().
GatewayOperation(url, cid, resp) ==
    CASE resp.kind = "json" -> OpOk(PayloadOf(cid))
      [] resp.kind = "status" ->
            OpFail(PlainError(MsgHttp \o DecimalString(resp.status) \o MsgFrom \o url))
      [] resp.kind = "network" ->
            OpFail(MkThrown(TRUE, "TypeError", MsgFetchFailed, <<>>, 0, <<>>))
      [] OTHER -> OpFail(MkThrown(TRUE, "SyntaxError", MsgBadJson, <<>>, 0, <<>>))

MsgNoGateways ==
    <<"N","o"," ","g","a","t","e","w","a","y","s"," ","c","o","n","f","i","g","u",
      "r","e","d">>

\* State of fetchIpfsData.  reqOrder lists every GET issued, in order, with
\* its gateway g and whether the operation resolved (ok); engineCalls counts
\* the withRetry calls; warns the "exhausted - trying next" warnings.
FetchIdle ==
    [pc |-> "idle", cid |-> <<>>, gi |-> 0, lastErr |-> <<>>, outcome |-> <<>>,
     reqOrder |-> <<>>, engineCalls |-> 0, warns |-> 0]

\* FetchEnter without the sentinel test (faulty variant)
FetchEnterNoSentinel(f, cid) ==
    [f EXCEPT !.pc = "gateway", !.cid = cid, !.gi = 1, !.engineCalls = @ + 1,
              !.lastErr = <<PlainError(MsgNoGateways)>>]

\* Entry of fetchIpfsData: the sentinel returns the canned payload; any other
\* address starts the loop at the first gateway with lastErr = new Error('No gateways configured').
FetchEnter(f, cid) ==
    IF cid = CidMock
    THEN [f EXCEPT !.pc = "done", !.cid = cid, !.outcome = <<Returned(MockPayload)>>]
    ELSE [f EXCEPT !.pc = "gateway", !.cid = cid, !.gi = 1, !.engineCalls = @ + 1,
                   !.lastErr = <<PlainError(MsgNoGateways)>>]

\* FetchSettled that goes on to the next gateway after a success too (faulty variant)
FetchSettledNoReturn(f, out) ==
    IF f.gi < NumGateways
    THEN [f EXCEPT !.gi = @ + 1, !.engineCalls = @ + 1]
    ELSE [f EXCEPT !.pc = "done", !.outcome = <<out>>]

\* The continuation of `await withRetry(...)` for the current gateway: return
\* the data, or catch, remember the error, warn and go on to the next gateway;
\* after the last gateway throw the aggregated RpcExhaustedError.
FetchSettled(f, out) ==
    IF out.kind = "return"
    THEN [f EXCEPT !.pc = "done", !.outcome = <<Returned(out.value)>>]
    ELSE LET lastErr == NormaliseError(out.err[1])
             f1 == [f EXCEPT !.lastErr = <<lastErr>>, !.warns = @ + 1]
         IN IF f.gi < NumGateways
            THEN [f1 EXCEPT !.gi = @ + 1, !.engineCalls = @ + 1]
            ELSE [f1 EXCEPT !.pc = "done",
                            !.outcome = <<Threw(RpcExhaustedError(OpPrefixIpfs \o f.cid,
                                                                  NumGateways * 3, lastErr))>>]

\* The bookkeeping of one GET to the current gateway.
FetchCounted(f, res) ==
    [f EXCEPT !.reqOrder = Append(@, [g |-> f.gi, ok |-> res.ok])]

\* ------------------------------------------------------------ persistence

\* Amounts of the token are held as their count of 10^-18 units: the value
\* Number(ethers.formatUnits(x, 18)) of x base units, as the NUMERIC(36,18)
\* column total_stake_yes / total_stake_no stores it, is the count x.
FormatUnitsNumber(x) == x

\* new Date(Number(ts) * 1000), in milliseconds
DateOfSeconds(ts) == ts * 1000

\* FindOne that never finds a row (faulty variant)
FindOneNever(st, key) == <<>>

\* FindOne that ignores the where clause (faulty variant)
FindOneAnyRow(st, key) == IF st = <<>> THEN <<>> ELSE <<st[1]>>

\* callsRepository.findOne({ where: { callOnchainId: key } }): the row, or null
FindOne(st, key) ==
    LET hits == {i \in 1..Len(st) : st[i].callOnchainId = key}
    IN IF hits = {} THEN <<>> ELSE <<st[CHOOSE i \in hits : \A h \in hits : i <= h]>>

\* UniqueOnchainId of a table without the unique constraint (faulty variant)
UniqueOnchainIdAbsent(st, row) == TRUE

\* The constraints of table "calls": UQ_calls_call_onchain_id and the three CHECKs.
UniqueOnchainId(st, row) == \A i \in 1..Len(st) : st[i].callOnchainId # row.callOnchainId

\* ChecksHold of a table without CHK_calls_end_after_start (faulty variant)
ChecksHoldNoTimestamps(row) ==
    /\ row.totalStakeYes >= 0
    /\ row.totalStakeNo >= 0

ChecksHold(row) ==
    /\ row.totalStakeYes >= 0
    /\ row.totalStakeNo >= 0
    /\ row.endTs > row.startTs

\* callsRepository.save(entity) of a new entity: INSERT; a violated constraint
\* rejects the save and leaves the table as it was.
Insert(st, row) ==
    IF UniqueOnchainId(st, row) /\ ChecksHold(row)
    THEN [ok |-> TRUE, store |-> Append(st, [row EXCEPT !.id = Len(st) + 1])]
    ELSE [ok |-> FALSE, store |-> st]

\* Update that inserts the entity as a new row (faulty variant)
UpdateAsInsert(st, row) ==
    IF ChecksHold(row)
    THEN [ok |-> TRUE, store |-> Append(st, [row EXCEPT !.id = Len(st) + 1])]
    ELSE [ok |-> FALSE, store |-> st]

\* callsRepository.save(entity) of a loaded entity: UPDATE of the row with its id
Update(st, row) ==
    IF ChecksHold(row)
    THEN [ok |-> TRUE, store |-> [i \in 1..Len(st) |-> IF st[i].id = row.id THEN row ELSE st[i]]]
    ELSE [ok |-> FALSE, store |-> st]

\* ---------------------------------------------------------- event handlers

MkEvent(type, callId, who, amount, position, startTs, endTs, cid) ==
    [type |-> type, callId |-> callId, who |-> who, stakeToken |-> "0xToken",
     amount |-> amount, position |-> position, startTs |-> startTs, endTs |-> endTs,
     tokenAddress |-> "0xAsset", pairId |-> "0xPair", ipfsCID |-> cid]

\* The events the contract has emitted: three CallCreated (one whose endTs is
\* not after its startTs) and three StakeAdded (one for a call never created).
ChainEvents ==
    <<MkEvent("CallCreated", 42, "0xCreatorA", 5, TRUE, 100, 200, <<"Q","m","A">>),
      MkEvent("CallCreated", 7, "0xCreatorB", 0, TRUE, 100, 200, <<>>),
      MkEvent("CallCreated", 8, "0xCreatorA", 1, TRUE, 300, 100, CidMock),
      MkEvent("StakeAdded", 42, "0xStaker", 3, TRUE, 0, 0, <<>>),
      MkEvent("StakeAdded", 42, "0xStaker", 2, FALSE, 0, 0, <<>>),
      MkEvent("StakeAdded", 99, "0xStaker", 1, TRUE, 0, 0, <<>>)>>

EmptyJson == {}

\* this.callsRepository.create({...}) in handleCallCreated
NewCall(ev, conditionJson) ==
    [id |-> 0,
     callOnchainId |-> DecimalString(ev.callId),
     creatorWallet |-> ev.who,
     stakeToken |-> ev.stakeToken,
     totalStakeYes |-> FormatUnitsNumber(ev.amount),
     totalStakeNo |-> 0,
     startTs |-> DateOfSeconds(ev.startTs),
     endTs |-> DateOfSeconds(ev.endTs),
     tokenAddress |-> ev.tokenAddress,
     pairId |-> ev.pairId,
     ipfsCid |-> ev.ipfsCID,
     conditionJson |-> conditionJson,
     status |-> "active"]

\* A handler invocation.  ev indexes ChainEvents; found and entity hold zero
\* or one row; the counters count the calls made to the collaborators and
\* the log lines written; storeBefore is the table when the handler was
\* called; origin tells the awaited call of the historical replay from the
\* call made by a callback of the live listener.
NewTask(kind, ev, st) ==
    [kind |-> kind, ev |-> ev, pc |-> "find", result |-> "pending",
     entity |-> <<>>, conditionJson |-> EmptyJson,
     finds |-> 0, authCalls |-> 0, fetchCalls |-> 0, saves |-> 0,
     infos |-> IF kind = "stake" THEN 1 ELSE 0, warns |-> 0, errors |-> 0,
     storeBefore |-> st, origin |-> "replay"]

\* validateUser(creator) of the auth collaborator resolves or rejects.
AuthVerdicts == {"ok", "reject"}

\* What fetchIpfsData settles with: the canned payload for the sentinel;
\* otherwise the payload of a gateway, or the aggregated RpcExhaustedError.
FetchOutcomes(cid) ==
    IF cid = CidMock
    THEN {Returned(MockPayload)}
    ELSE {Returned(PayloadOf(cid)),
          Threw(RpcExhaustedError(OpPrefixIpfs \o cid, NumGateways * 3,
                    ExhaustedThrow(GatewayPolicy(Gateways(cid)[NumGateways]),
                                   MkThrown(TRUE, "TypeError", MsgFetchFailed, <<>>, 0, <<>>))))}

\* handleCallCreated after `await findOne`: return if the record exists, else log and validate
CreatedFound(t, found) ==
    IF found # <<>>
    THEN [t EXCEPT !.finds = @ + 1, !.pc = "done", !.result = "ok"]
    ELSE [t EXCEPT !.finds = @ + 1, !.pc = "auth", !.infos = @ + 1]

\* handleCallCreated after `await validateUser`: a rejection ends the handler
CreatedValidated(t, ev, verdict) ==
    IF verdict = "reject"
    THEN [t EXCEPT !.authCalls = @ + 1, !.pc = "done", !.result = "threw"]
    ELSE [t EXCEPT !.authCalls = @ + 1,
                   !.pc = IF Len(ev.ipfsCID) > 0 THEN "fetch" ELSE "save"]

\* CreatedFetched whose failed fetch ends the handler (faulty variant)
CreatedFetchedAborts(t, out) ==
    IF out.kind = "return"
    THEN [t EXCEPT !.fetchCalls = @ + 1, !.conditionJson = out.value, !.pc = "save"]
    ELSE [t EXCEPT !.fetchCalls = @ + 1, !.errors = @ + 1, !.pc = "done", !.result = "threw"]

\* handleCallCreated after `await fetchIpfsData`: a failure is logged and the
\* metadata stays empty
CreatedFetched(t, out) ==
    IF out.kind = "return"
    THEN [t EXCEPT !.fetchCalls = @ + 1, !.conditionJson = out.value, !.pc = "save"]
    ELSE [t EXCEPT !.fetchCalls = @ + 1, !.errors = @ + 1, !.pc = "save"]

\* handleCallCreated after `await save(call)`
CreatedSaved(t, ok) ==
    IF ok
    THEN [t EXCEPT !.saves = @ + 1, !.infos = @ + 1, !.pc = "done", !.result = "ok"]
    ELSE [t EXCEPT !.saves = @ + 1, !.pc = "done", !.result = "threw"]

\* handleStakeAdded after `await findOne`: warn and return for an unknown
\* call, else add the amount to the accumulator the position selects
StakeFound(t, ev, found) ==
    IF found = <<>>
    THEN [t EXCEPT !.finds = @ + 1, !.warns = @ + 1, !.pc = "done", !.result = "ok"]
    ELSE LET call == found[1]
             amountNum == FormatUnitsNumber(ev.amount)
         IN [t EXCEPT !.finds = @ + 1, !.pc = "save",
                      !.entity = <<IF ev.position
                                   THEN [call EXCEPT !.totalStakeYes = @ + amountNum]
                                   ELSE [call EXCEPT !.totalStakeNo = @ + amountNum]>>]

\* handleStakeAdded after `await save(call)`
StakeSaved(t, ok) ==
    [t EXCEPT !.saves = @ + 1, !.pc = "done", !.result = IF ok THEN "ok" ELSE "threw"]

\* ----------------------------------------------------------- live listener

LISTENER_RECONNECT_DELAY_MS == 10000

LISTENER_MAX_RECONNECTS == 10

\* cap at 5 minutes
ReconnectDelayCap == 300000

\* The live listener of the service.  reconnectCount is the field of the
\* class; errorHandlers counts the 'error' listeners registered on the
\* provider and contracts the Contract objects whose event listeners are
\* attached; timers counts the pending setTimeout callbacks.  The other
\* fields record what has happened: calls of startListening (starts), timers
\* set (scheduled) and run (fired), timers set since reconnectCount was last
\* zero (sinceReset), give-up messages (fatals), the delay last computed, the
\* 'error' events the provider has emitted and the handler failures logged.
ListenerStopped ==
    [reconnectCount |-> 0, errorHandlers |-> 0, contracts |-> 0, timers |-> 0,
     starts |-> 0, scheduled |-> 0, fired |-> 0, sinceReset |-> 0, fatals |-> 0,
     lastDelay |-> 0, liveErrors |-> 0, emitted |-> 0]

\* startListening either runs to its end or throws synchronously (from
\* `new ethers.Contract`, before anything is attached).
StartResults == {"ok", "throw"}

\* startListening(): a new Contract with its two event listeners, and one
\* more 'error' listener on the provider
StartListening(l, res) ==
    IF res = "ok"
    THEN [l EXCEPT !.starts = @ + 1, !.contracts = @ + 1, !.errorHandlers = @ + 1]
    ELSE [l EXCEPT !.starts = @ + 1]

\* if (this.reconnectCount >= LISTENER_MAX_RECONNECTS)
ReachedCeiling(count) == count >= LISTENER_MAX_RECONNECTS

\* ReconnectDelay computed from the counter after its increment (faulty variant)
ReconnectDelayAfterIncrement(count) ==
    LET d == LISTENER_RECONNECT_DELAY_MS * Pow(2, count + 1)
    IN IF d <= ReconnectDelayCap THEN d ELSE ReconnectDelayCap

\* Math.min(LISTENER_RECONNECT_DELAY_MS * Math.pow(2, this.reconnectCount), 300_000)
ReconnectDelay(count) ==
    LET d == LISTENER_RECONNECT_DELAY_MS * Pow(2, count)
    IN IF d <= ReconnectDelayCap THEN d ELSE ReconnectDelayCap

\* scheduleReconnect(): log the give-up message and return, or count the
\* attempt and set its timer
ScheduleReconnect(l) ==
    IF ReachedCeiling(l.reconnectCount)
    THEN [l EXCEPT !.fatals = @ + 1]
    ELSE [l EXCEPT !.lastDelay = ReconnectDelay(l.reconnectCount),
                   !.reconnectCount = @ + 1,
                   !.scheduled = @ + 1,
                   !.sinceReset = @ + 1,
                   !.timers = @ + 1]

\* The callback given to setTimeout: startListening, then the counter is
\* reset; a synchronous throw is caught and scheduleReconnect is called.
ReconnectTimer(l, res) ==
    LET l1 == StartListening([l EXCEPT !.timers = @ - 1, !.fired = @ + 1], res) IN
    IF res = "ok"
    THEN [l1 EXCEPT !.reconnectCount = 0, !.sinceReset = 0]
    ELSE ScheduleReconnect(l1)

\* OnProviderError that leaves the contract's listeners attached (faulty variant)
OnProviderErrorKeepsListeners(l) == ScheduleReconnect(l)

\* One 'error' listener of the provider: removeAllListeners on the contract
\* of its closure, then scheduleReconnect.
OnProviderError(l) ==
    ScheduleReconnect([l EXCEPT !.contracts = IF @ > 0 THEN @ - 1 ELSE 0])

RECURSIVE EmitProviderError(_, _)
\* provider.emit('error', err): the n listeners registered so far run in turn
EmitProviderError(l, n) ==
    IF n = 0 THEN l ELSE EmitProviderError(OnProviderError(l), n - 1)

\* LiveCaught that treats the failure as a transport error (faulty variant)
LiveCaughtAsTransport(l) == OnProviderError([l EXCEPT !.liveErrors = @ + 1])

\* .catch((err) => this.logger.error(`Error handling live ...`)) of a callback
LiveCaught(l) == [l EXCEPT !.liveErrors = @ + 1]

\* A handler call has made a step to t: the rejection of a call made by a
\* live callback goes to the .catch of that callback.
HandlerSettled(l, t) ==
    IF t.origin = "live" /\ t.pc = "done" /\ t.result = "threw" THEN LiveCaught(l) ELSE l

\* the handler call a live callback makes for event ev
LiveTask(ev, st) ==
    [NewTask(IF ChainEvents[ev].type = "CallCreated" THEN "created" ELSE "stake", ev, st)
        EXCEPT !.origin = "live"]

\* ------------------------------------------------------- @Retryable methods

\* RetryOptions given by a caller: every field is optional, <<>> when absent.
NoOptions ==
    [maxAttempts |-> <<>>, baseDelayMs |-> <<>>, factor |-> <<>>, maxDelayMs |-> <<>>,
     jitter |-> <<>>, isRetryable |-> <<>>, operationName |-> <<>>]

\* a ?? b on optional values
OrElse(opt, dflt) == IF opt = <<>> THEN dflt ELSE opt[1]

\* The destructuring at the head of withRetry: a field keeps the caller's
\* value, or takes the default.  The copy in oracle.service.ts reads no
\* isRetryable.
WithDefaults(engine, options) ==
    MkPolicy(engine,
             OrElse(options.maxAttempts, DefaultMaxAttempts),
             OrElse(options.baseDelayMs, DefaultBaseDelayMs),
             OrElse(options.factor, DefaultFactor),
             OrElse(options.maxDelayMs, DefaultMaxDelayMs),
             OrElse(options.jitter, DefaultJitterPct),
             IF engine = "util" THEN OrElse(options.isRetryable, "none") ELSE "none",
             OrElse(options.operationName, DefaultOperationName(engine)))

\* the argument of @Retryable: a number, or an options object
AttemptsArg(n) == [isNumber |-> TRUE, n |-> n, options |-> NoOptions]

OptionsArg(options) == [isNumber |-> FALSE, n |-> 0, options |-> options]

\* RetryableOptions that forgets the object form of the argument (faulty variant)
RetryableOptionsNumberOnly(engine, arg) ==
    [NoOptions EXCEPT !.maxAttempts = IF arg.isNumber THEN <<arg.n>> ELSE <<>>,
                      !.isRetryable = IF engine = "util" THEN <<"default">> ELSE <<>>]

\* const options = typeof arg === 'number' ? { maxAttempts: arg } : arg, with
\* isRetryable: defaultSorobanIsRetryable put first by the decorator of
\* rpc-retry.util.ts
RetryableOptions(engine, arg) ==
    LET given == IF arg.isNumber
                 THEN [NoOptions EXCEPT !.maxAttempts = <<arg.n>>]
                 ELSE arg.options
    IN IF engine = "util" /\ given.isRetryable = <<>>
       THEN [given EXCEPT !.isRetryable = <<"default">>]
       ELSE given

\* operationName = options.operationName ?? `${className}.${propertyKey}`
RetryableOperationName(options, className, propertyKey) ==
    OrElse(options.operationName, className \o <<".">> \o propertyKey)

\* The policy with which the decorated method calls withRetry:
\* withRetry(() => original.apply(this, args), { ...options, operationName })
RetryablePolicy(engine, arg, className, propertyKey) ==
    LET options == RetryableOptions(engine, arg) IN
    WithDefaults(engine,
                 [options EXCEPT !.operationName =
                     <<RetryableOperationName(options, className, propertyKey)>>])

ClassIndexerService == <<"I","n","d","e","x","e","r","S","e","r","v","i","c","e">>

KeyGetNetwork == <<"g","e","t","N","e","t","w","o","r","k">>

KeyGetBlockNumber == <<"g","e","t","B","l","o","c","k","N","u","m","b","e","r">>

KeyQueryFilter == <<"q","u","e","r","y","F","i","l","t","e","r">>

OpGetNetwork == <<"i","n","d","e","x","e","r",":","g","e","t","N","e","t","w","o","r","k">>

OpGetBlockNumber == <<"i","n","d","e","x","e","r",":","g","e","t","B","l","o","c","k","N","u","m","b","e","r">>

OpQueryFilter == <<"i","n","d","e","x","e","r",":","q","u","e","r","y","F","i","l","t","e","r">>

\* @Retryable({ maxAttempts: 4, operationName: 'indexer:getNetwork' })
GetNetworkArg ==
    OptionsArg([NoOptions EXCEPT !.maxAttempts = <<4>>, !.operationName = <<OpGetNetwork>>])

\* @Retryable({ maxAttempts: 4, operationName: 'indexer:getBlockNumber' })
GetBlockNumberArg ==
    OptionsArg([NoOptions EXCEPT !.maxAttempts = <<4>>, !.operationName = <<OpGetBlockNumber>>])

\* @Retryable({ maxAttempts: 5, baseDelayMs: 1_000, operationName: 'indexer:queryFilter' })
QueryFilterArg ==
    OptionsArg([NoOptions EXCEPT !.maxAttempts = <<5>>, !.baseDelayMs = <<1000>>,
                                 !.operationName = <<OpQueryFilter>>])

\* ------------------------------------------------------------------ startup

\* The retried RPC primitives of the service; queryFilter is in flight twice
\* in syncHistoricalEvents, once per event name.
RpcCalls == {"getNetwork", "getBlockNumber", "queryCreated", "queryStake"}

RpcPolicy(call) ==
    IF call = "getNetwork"
    THEN RetryablePolicy("oracle", GetNetworkArg, ClassIndexerService, KeyGetNetwork)
    ELSE IF call = "getBlockNumber"
    THEN RetryablePolicy("oracle", GetBlockNumberArg, ClassIndexerService, KeyGetBlockNumber)
    ELSE RetryablePolicy("oracle", QueryFilterArg, ClassIndexerService, KeyQueryFilter)

\* onModuleInit and, inside it, syncHistoricalEvents.  calls holds the
\* withRetry call of each primitive; created and stakes are the events the
\* two queries returned and nextEvent the position of the replay in them;
\* the counters count the lines logged by the two catch blocks and the
\* 'Historical sync complete' line.
BootIdle ==
    [pc |-> "idle", configured |-> TRUE, connected |-> FALSE,
     calls |-> [c \in RpcCalls |-> RetryIdle],
     created |-> <<>>, stakes |-> <<>>, nextEvent |-> 0,
     syncFailures |-> 0, syncErrors |-> 0, syncComplete |-> 0,
     initErrors |-> 0, warns |-> 0]

\* if (!this.provider || !this.registryAddress) { warn; return }, else the
\* two calls of the connectivity check are made
BootEnter(b) ==
    IF ~b.configured
    THEN [b EXCEPT !.pc = "disabled", !.warns = @ + 1]
    ELSE [b EXCEPT !.pc = "connect",
                   !.calls = [@ EXCEPT !["getNetwork"] = RetryEnter(RpcPolicy("getNetwork")),
                                       !["getBlockNumber"] = RetryEnter(RpcPolicy("getBlockNumber"))]]

\* outcome of Promise.all over the withRetry calls cs: pending, rejected as
\* soon as one of them has thrown, fulfilled once all have returned
PromiseAll(b, cs) ==
    IF \E c \in cs : b.calls[c].pc = "done" /\ b.calls[c].outcome[1].kind = "throw"
    THEN "rejected"
    ELSE IF \A c \in cs : b.calls[c].pc = "done" THEN "fulfilled" ELSE "pending"

\* the withRetry calls of cs that have settled are over
Settled(b, cs) ==
    [b EXCEPT !.calls = [c \in RpcCalls |->
                            IF c \in cs /\ b.calls[c].pc = "done" THEN RetryIdle ELSE b.calls[c]]]

\* the catch of onModuleInit: log, leave the indexer offline
InitCaught(b) == [b EXCEPT !.pc = "offline", !.initErrors = @ + 1]

\* Connected that goes on without calling syncHistoricalEvents (faulty variant)
ConnectedSkipsSync(b) ==
    IF PromiseAll(b, {"getNetwork", "getBlockNumber"}) = "rejected"
    THEN InitCaught(Settled(b, {"getNetwork", "getBlockNumber"}))
    ELSE [Settled(b, {"getNetwork", "getBlockNumber"}) EXCEPT !.pc = "synced", !.connected = TRUE]

\* Connected that takes a failed connectivity check for a passed one (faulty variant)
ConnectedIgnoresFailure(b) ==
    [Settled(b, {"getNetwork"}) EXCEPT
         !.pc = "height", !.connected = TRUE,
         !.calls = [@ EXCEPT !["getBlockNumber"] = RetryEnter(RpcPolicy("getBlockNumber"))]]

\* After the connectivity check: three lines logged and syncHistoricalEvents
\* entered, which calls getBlockNumber; or the catch of onModuleInit.
Connected(b) ==
    IF PromiseAll(b, {"getNetwork", "getBlockNumber"}) = "rejected"
    THEN InitCaught(Settled(b, {"getNetwork", "getBlockNumber"}))
    ELSE [Settled(b, {"getNetwork"}) EXCEPT
              !.pc = "height", !.connected = TRUE,
              !.calls = [@ EXCEPT !["getBlockNumber"] = RetryEnter(RpcPolicy("getBlockNumber"))]]

\* SyncCaught that rethrows to the caller (faulty variant)
SyncCaughtRethrow(b) == InitCaught([b EXCEPT !.syncFailures = @ + 1])

\* the catch of syncHistoricalEvents: one error line, no rethrow, the
\* function returns
SyncCaught(b) ==
    [b EXCEPT !.pc = "synced", !.syncFailures = @ + 1, !.syncErrors = @ + 1]

\* after `await this.getBlockNumber()`: the two queries are started
HeightKnown(b) ==
    IF b.calls["getBlockNumber"].outcome[1].kind = "throw"
    THEN SyncCaught(Settled(b, {"getBlockNumber"}))
    ELSE [Settled(b, {"getBlockNumber"}) EXCEPT
                   !.pc = "query",
                   !.calls = [@ EXCEPT !["queryCreated"] = RetryEnter(RpcPolicy("queryCreated")),
                                       !["queryStake"] = RetryEnter(RpcPolicy("queryStake"))]]

\* after `await Promise.all([queryFilter, queryFilter])`
Queried(b, createdEvents, stakeEvents) ==
    IF PromiseAll(b, {"queryCreated", "queryStake"}) = "rejected"
    THEN SyncCaught(Settled(b, {"queryCreated", "queryStake"}))
    ELSE [Settled(b, {"queryCreated", "queryStake"}) EXCEPT
              !.pc = "replay", !.created = createdEvents, !.stakes = stakeEvents,
              !.nextEvent = 1]

\* ReplayList with the StakeAdded loop first (faulty variant)
ReplayListStakesFirst(b) == b.stakes \o b.created

\* the events of the two replay loops, CallCreated first
ReplayList(b) == b.created \o b.stakes

\* the body of the replay loops after the awaited handler has settled: a
\* handler that threw ends the try block
Replayed(b, threw) ==
    IF threw THEN SyncCaught(b) ELSE [b EXCEPT !.nextEvent = @ + 1]

\* both loops are over: 'Historical sync complete'
ReplayFinished(b) == [b EXCEPT !.pc = "synced", !.syncComplete = @ + 1]

\* this.startListening() in onModuleInit, inside its try block
BootListened(b, res) ==
    IF res = "ok" THEN [b EXCEPT !.pc = "listening"] ELSE InitCaught(b)

\* ------------------------------------------------- the engine on its own

MsgNetworkTimeout == <<"n","e","t","w","o","r","k"," ","t","i","m","e","o","u","t">>

MsgHttp400 == <<"H","T","T","P"," ","4","0","0"," ","b","a","d"," ","r","e","q","u","e","s","t">>

MsgBadRequest == <<"b","a","d"," ","r","e","q","u","e","s","t">>

MsgBoom == <<"b","o","o","m">>

\* What an operation under retry may reject with.
OpThrowables ==
    {PlainError(MsgNetworkTimeout), PlainError(MsgHttp400),
     FlaggedNonRetryable(MsgBadRequest), NonErrorThrown(MsgBoom)}

OpValue == 7

OpResults == {OpOk(OpValue)} \cup {OpFail(t) : t \in OpThrowables}

BaseDelays == {6, DefaultBaseDelayMs}

Factors == {DefaultFactor, <<3, 2>>}

JitterPcts == {0, 10, DefaultJitterPct}

\* Policies within the ranges of RetryOptions: maxAttempts >= 1, baseDelayMs > 0,
\* factor >= 1, maxDelayMs >= baseDelayMs, 0 <= jitter <= 1.  The oracle copy
\* of the engine has no isRetryable option.
RetryPolicies ==
    UNION {{MkPolicy(e, n, b, f, m, j, p, DefaultOperationName(e)) :
               e \in RetryEngines, n \in 1..MaxAttemptsBound, f \in Factors,
               m \in {b, DefaultMaxDelayMs}, j \in JitterPcts,
               p \in IsRetryableOptions} : b \in BaseDelays}

NoPolicy == MkPolicy("oracle", 0, 0, <<1, 1>>, 0, 0, "none", <<>>)

InitRetry ==
    /\ policy \in {pol \in RetryPolicies : pol.engine = "oracle" => pol.isRetryable = "none"}
    /\ rt = RetryEnter(policy)
    /\ opLog = <<>>
    /\ fetchSt = FetchIdle
    /\ store = <<>>
    /\ tasks = <<>>
    /\ lst = ListenerStopped
    /\ boot = BootIdle
    /\ probe = NoProbe

\* await fn(): the operation settles and the loop body runs to its next await.
Invoke ==
    /\ rt.pc = "call"
    /\ \E res \in OpResults, u \in JitterDraws :
          /\ rt' = RetryAttempt(rt, policy, res, u)
          /\ opLog' = Append(opLog, res)
    /\ UNCHANGED <<policy, fetchSt, store, tasks, lst, boot, probe>>

\* The setTimeout of a backoff sleep fires.
Wake ==
    /\ rt.pc = "sleep"
    /\ rt' = RetryWake(rt, policy)
    /\ UNCHANGED <<policy, opLog, fetchSt, store, tasks, lst, boot, probe>>

NextRetry == Invoke \/ Wake

SpecRetry == InitRetry /\ [][NextRetry]_vars

\* ----------------------------------------------- properties of the engine

\* The error of invocation i, as the engine sees it.
LoggedError(i) == NormaliseError(opLog[i].thrown[1])

\* Invocation i failed with an error that is retryable under the policy: not
\* flagged non-retryable, and accepted by the predicate when one is configured.
FailedRetryable(i) ==
    /\ ~opLog[i].ok
    /\ LoggedError(i).cls # "RpcNonRetryableError"
    /\ policy.isRetryable = "none" \/ ApplyIsRetryable(policy.isRetryable, LoggedError(i), i)

AllFailedRetryable == \A i \in 1..Len(opLog) : FailedRetryable(i)

Finished == rt.pc = "done"

ThrewClass(cls) ==
    /\ Finished
    /\ rt.outcome[1].kind = "throw"
    /\ rt.outcome[1].err[1].cls = cls

\* C1: when every invocation fails with a retryable error, a finished
\* withRetry has invoked the operation exactly maxAttempts times and threw
\* RpcExhaustedError with attempts = maxAttempts and lastError = the error of
\* the last (maxAttempts-th) invocation.
C1_ExhaustedAfterN ==
    (Finished /\ AllFailedRetryable) =>
        /\ Len(opLog) = policy.maxAttempts
        /\ rt.invocations = policy.maxAttempts
        /\ ThrewClass("RpcExhaustedError")
        /\ rt.outcome[1].err[1].attempts = policy.maxAttempts
        /\ rt.outcome[1].err[1].inner = <<LoggedError(policy.maxAttempts)>>

C1_Witness ==
    /\ Finished
    /\ AllFailedRetryable
    /\ policy.maxAttempts = MaxAttemptsBound
    /\ policy.engine = "util"
    /\ rt.invocations = MaxAttemptsBound

\* C2: a success is the last invocation: withRetry is finished, has returned
\* that value, and made as many invocations as failures preceded it plus one;
\* and after k < maxAttempts retryable failures and no success the engine has
\* not given up (it is sleeping or about to invoke again).
C2_SuccessAfterK ==
    /\ \A i \in 1..Len(opLog) :
          opLog[i].ok =>
              /\ i = Len(opLog)
              /\ Finished
              /\ rt.outcome = <<Returned(opLog[i].value)>>
              /\ rt.invocations = i
              /\ i <= policy.maxAttempts
    /\ (AllFailedRetryable /\ Len(opLog) < policy.maxAttempts) => rt.pc \in {"call", "sleep"}

C2_Witness ==
    /\ Finished
    /\ policy.maxAttempts = MaxAttemptsBound
    /\ Len(opLog) = MaxAttemptsBound
    /\ opLog[MaxAttemptsBound].ok
    /\ \A i \in 1..(MaxAttemptsBound - 1) : FailedRetryable(i)
    /\ rt.outcome = <<Returned(OpValue)>>

\* C3: (rpc-retry.util) an invocation that fails with an error flagged
\* non-retryable is the last one: withRetry rethrows that same error without
\* a further sleep; when it is the first invocation, the operation was
\* invoked exactly once and no sleep was performed, whatever maxAttempts is.
C3_NonRetryableStops ==
    policy.engine = "util" =>
        \A i \in 1..Len(opLog) :
            (~opLog[i].ok /\ LoggedError(i).cls = "RpcNonRetryableError") =>
                /\ i = Len(opLog)
                /\ Finished
                /\ rt.outcome = <<Threw(opLog[i].thrown[1])>>
                /\ rt.invocations = i
                /\ rt.sleeps = i - 1

C3_Witness ==
    /\ policy.engine = "util"
    /\ policy.maxAttempts = MaxAttemptsBound
    /\ Finished
    /\ Len(opLog) = 1
    /\ opLog[1] = OpFail(FlaggedNonRetryable(MsgBadRequest))
    /\ rt.invocations = 1
    /\ rt.sleeps = 0

\* Invocation i failed with an unflagged error, so that a configured
\* predicate was consulted with (error, i).
PredicateConsulted(i) ==
    /\ policy.engine = "util"
    /\ policy.isRetryable # "none"
    /\ ~opLog[i].ok
    /\ LoggedError(i).cls # "RpcNonRetryableError"

\* C4: (rpc-retry.util) when the configured predicate returns false for
\* (error, attempt), no further attempt and no sleep follow and withRetry
\* throws an RpcNonRetryableError whose cause is the original error; when it
\* returns true before the final attempt, the engine goes on to its backoff
\* sleep and next attempt.
C4_PredicateRespected ==
    \A i \in 1..Len(opLog) :
        PredicateConsulted(i) =>
            IF ApplyIsRetryable(policy.isRetryable, LoggedError(i), i)
            THEN (i = Len(opLog) /\ i < policy.maxAttempts) =>
                     /\ rt.pc \in {"call", "sleep"}
                     /\ rt.warns = i
            ELSE /\ i = Len(opLog)
                 /\ ThrewClass("RpcNonRetryableError")
                 /\ rt.outcome[1].err[1].inner = <<LoggedError(i)>>
                 /\ rt.invocations = i
                 /\ rt.sleeps = i - 1
                 /\ rt.warns = i - 1

C4_Witness ==
    /\ policy.engine = "util"
    /\ policy.isRetryable = "default"
    /\ policy.maxAttempts = MaxAttemptsBound
    /\ Finished
    /\ Len(opLog) = 2
    /\ opLog[1] = OpFail(PlainError(MsgNetworkTimeout))
    /\ opLog[2] = OpFail(PlainError(MsgHttp400))
    /\ ThrewClass("RpcNonRetryableError")

\* min(baseDelayMs * factor^(attempt - 1), maxDelayMs) as a fraction, stated
\* from the policy alone.
CappedSchedule(attempt) ==
    LET num == policy.baseDelayMs * Pow(policy.factor[1], attempt - 1)
        den == Pow(policy.factor[2], attempt - 1)
    IN IF num <= policy.maxDelayMs * den THEN <<num, den>> ELSE <<policy.maxDelayMs * den, den>>

\* C5 as stated: the delay slept after failed attempt i lies within
\* [b*f^(i-1)*(1-j), b*f^(i-1)*(1+j)] and never exceeds maxDelay*(1+j).
C5_AsStated ==
    rt.pc = "sleep" =>
        LET num == policy.baseDelayMs * Pow(policy.factor[1], rt.attempt - 1)
            den == Pow(policy.factor[2], rt.attempt - 1)
        IN /\ num * (100 - policy.jitterPct) <= rt.delay * den * 100
           /\ rt.delay * den * 100 <= num * (100 + policy.jitterPct)
           /\ rt.delay * 100 <= policy.maxDelayMs * (100 + policy.jitterPct)

\* C5, amended: with r = min(b*f^(i-1), maxDelay), the delay slept after failed
\* attempt i is the rounding to a whole millisecond of a value within
\* [r*(1-j), r*(1+j)]: it lies within [r*(1-j) - 1/2, r*(1+j) + 1/2], is not
\* negative and never exceeds maxDelay*(1+j) + 1/2.
C5_DelayWithinJitter ==
    rt.pc = "sleep" =>
        LET r == CappedSchedule(rt.attempt) IN
        /\ rt.attempt < policy.maxAttempts
        /\ rt.delay >= 0
        /\ 2 * r[1] * (100 - policy.jitterPct) - 100 * r[2] <= 2 * rt.delay * r[2] * 100
        /\ 2 * rt.delay * r[2] * 100 <= 2 * r[1] * (100 + policy.jitterPct) + 100 * r[2]
        /\ 2 * rt.delay * 100 <= 2 * policy.maxDelayMs * (100 + policy.jitterPct) + 100

\* a sleep whose schedule value b*f^(i-1) is above the ceiling
C5_Witness ==
    /\ rt.pc = "sleep"
    /\ rt.attempt = 2
    /\ policy.baseDelayMs * Pow(policy.factor[1], 1) > policy.maxDelayMs * Pow(policy.factor[2], 1)
    /\ policy.jitterPct > 0
    /\ rt.delay > policy.maxDelayMs

\* C6: whatever a finished withRetry throws is an RpcNonRetryableError or an
\* RpcExhaustedError, and is never the unwrapped error of an invocation that
\* failed with a retryable error.
C6_OnlyWrappedFailuresEscape ==
    (Finished /\ rt.outcome[1].kind = "throw") =>
        /\ rt.outcome[1].err[1].cls \in {"RpcNonRetryableError", "RpcExhaustedError"}
        /\ \A i \in 1..Len(opLog) :
              FailedRetryable(i) => rt.outcome[1].err[1] # LoggedError(i)

C6_Witness ==
    /\ ThrewClass("RpcExhaustedError")
    /\ policy.maxAttempts >= 2
    /\ rt.outcome[1].err[1].inner = <<PlainError(MsgBoom)>>
    /\ opLog[Len(opLog)] = OpFail(NonErrorThrown(MsgBoom))

\* --------------------------------------------------- fetchIpfsData on its own

CidA == <<"Q","m","A">>

FetchCids == {CidMock, CidA}

InitFetch ==
    /\ policy = NoPolicy
    /\ rt = RetryIdle
    /\ opLog = <<>>
    /\ fetchSt = FetchIdle
    /\ store = <<>>
    /\ tasks = <<>>
    /\ lst = ListenerStopped
    /\ boot = BootIdle
    /\ probe = NoProbe

\* fetchIpfsData(cid) is called; for a real address the first withRetry starts.
FetchCall ==
    /\ fetchSt.pc = "idle"
    /\ \E cid \in FetchCids : fetchSt' = FetchEnter(fetchSt, cid)
    /\ IF fetchSt'.pc = "gateway"
       THEN /\ policy' = GatewayPolicy(Gateways(fetchSt'.cid)[1])
            /\ rt' = RetryEnter(policy')
       ELSE UNCHANGED <<policy, rt>>
    /\ UNCHANGED <<opLog, store, tasks, lst, boot, probe>>

\* One GET to the current gateway settles inside withRetry.
FetchRequest ==
    /\ fetchSt.pc = "gateway"
    /\ rt.pc = "call"
    /\ \E resp \in GatewayResponses, u \in JitterDraws :
          LET res == GatewayOperation(Gateways(fetchSt.cid)[fetchSt.gi], fetchSt.cid, resp) IN
          /\ rt' = RetryAttempt(rt, policy, res, u)
          /\ fetchSt' = FetchCounted(fetchSt, res)
    /\ UNCHANGED <<policy, opLog, store, tasks, lst, boot, probe>>

\* The backoff sleep between two GETs to the same gateway ends.
FetchWake ==
    /\ fetchSt.pc = "gateway"
    /\ rt.pc = "sleep"
    /\ rt' = RetryWake(rt, policy)
    /\ UNCHANGED <<policy, opLog, fetchSt, store, tasks, lst, boot, probe>>

\* withRetry for the current gateway has settled: fetchIpfsData returns,
\* starts withRetry for the next gateway, or throws.
GatewaySettled ==
    /\ fetchSt.pc = "gateway"
    /\ rt.pc = "done"
    /\ fetchSt' = FetchSettled(fetchSt, rt.outcome[1])
    /\ IF fetchSt'.pc = "gateway"
       THEN /\ policy' = GatewayPolicy(Gateways(fetchSt'.cid)[fetchSt'.gi])
            /\ rt' = RetryEnter(policy')
       ELSE UNCHANGED <<policy, rt>>
    /\ UNCHANGED <<opLog, store, tasks, lst, boot, probe>>

NextFetch == FetchCall \/ FetchRequest \/ FetchWake \/ GatewaySettled

SpecFetch == InitFetch /\ [][NextFetch]_vars

\* ------------------------------------------- properties of fetchIpfsData

\* the GETs issued so far to gateway g, and those of them that failed
RequestsTo(g) == {i \in 1..Len(fetchSt.reqOrder) : fetchSt.reqOrder[i].g = g}

FailuresOf(g) == {i \in RequestsTo(g) : ~fetchSt.reqOrder[i].ok}

\* C9: gateways are contacted in list order; gateway k+1 has received a GET
\* only if gateway k received exactly 3 GETs and all 3 failed; a successful
\* GET is the last GET ever issued, so no later gateway is contacted after it.
C9_GatewayOrder ==
    /\ \A i \in 1..(Len(fetchSt.reqOrder) - 1) :
          fetchSt.reqOrder[i].g <= fetchSt.reqOrder[i + 1].g
    /\ \A g \in 1..(NumGateways - 1) :
          RequestsTo(g + 1) # {} =>
              /\ Cardinality(RequestsTo(g)) = 3
              /\ Cardinality(FailuresOf(g)) = 3
    /\ \A i \in 1..Len(fetchSt.reqOrder) :
          fetchSt.reqOrder[i].ok => i = Len(fetchSt.reqOrder)
    /\ \A g \in 1..NumGateways : Cardinality(RequestsTo(g)) <= 3

\* only the 3rd gateway healthy: 3, 3, 1 and 0 GETs
C9_Witness ==
    /\ fetchSt.pc = "done"
    /\ fetchSt.outcome[1].kind = "return"
    /\ fetchSt.outcome[1].value = PayloadOf(CidA)
    /\ Cardinality(FailuresOf(1)) = 3
    /\ Cardinality(FailuresOf(2)) = 3
    /\ Cardinality(RequestsTo(3)) = 1
    /\ RequestsTo(4) = {}

InitHandlers ==
    /\ policy = NoPolicy
    /\ rt = RetryIdle
    /\ opLog = <<>>
    /\ fetchSt = FetchIdle
    /\ store = <<>>
    /\ tasks = <<>>
    /\ lst = ListenerStopped
    /\ boot = BootIdle
    /\ probe = NoProbe

AllSettled == \A i \in 1..Len(tasks) : tasks[i].pc = "done"

TaskEvent(i) == ChainEvents[tasks[i].ev]

\* An event is passed to its handler (by the historical replay, or by the
\* live listener after it): every earlier handler call has settled.
Deliver ==
    /\ Len(tasks) < MaxDeliveries
    /\ AllSettled
    /\ \E e \in 1..Len(ChainEvents) :
          tasks' = Append(tasks,
                          NewTask(IF ChainEvents[e].type = "CallCreated" THEN "created" ELSE "stake",
                                  e, store))
    /\ UNCHANGED <<policy, rt, opLog, fetchSt, store, lst, boot, probe>>

\* The awaits of handleCallCreated (findOne, validateUser, fetchIpfsData,
\* save) and of handleStakeAdded (findOne, save) settle one at a time.
CreatedFind ==
    /\ \E i \in 1..Len(tasks) :
          /\ tasks[i].kind = "created" /\ tasks[i].pc = "find"
          /\ tasks' = [tasks EXCEPT ![i] =
                          CreatedFound(@, FindOne(store, DecimalString(TaskEvent(i).callId)))]
    /\ UNCHANGED <<policy, rt, opLog, fetchSt, store, lst, boot, probe>>

CreatedAuth ==
    /\ \E i \in 1..Len(tasks), verdict \in AuthVerdicts :
          /\ tasks[i].kind = "created" /\ tasks[i].pc = "auth"
          /\ LET t == CreatedValidated(tasks[i], TaskEvent(i), verdict) IN
                /\ tasks' = [tasks EXCEPT ![i] = t]
                /\ lst' = HandlerSettled(lst, t)
    /\ UNCHANGED <<policy, rt, opLog, fetchSt, store, boot, probe>>

CreatedFetch ==
    /\ \E i \in 1..Len(tasks) :
          /\ tasks[i].kind = "created" /\ tasks[i].pc = "fetch"
          /\ \E out \in FetchOutcomes(TaskEvent(i).ipfsCID) :
                tasks' = [tasks EXCEPT ![i] = CreatedFetched(@, out)]
    /\ UNCHANGED <<policy, rt, opLog, fetchSt, store, lst, boot, probe>>

CreatedSave ==
    /\ \E i \in 1..Len(tasks) :
          /\ tasks[i].kind = "created" /\ tasks[i].pc = "save"
          /\ LET r == Insert(store, NewCall(TaskEvent(i), tasks[i].conditionJson))
                 t == CreatedSaved(tasks[i], r.ok)
             IN /\ store' = r.store
                /\ tasks' = [tasks EXCEPT ![i] = t]
                /\ lst' = HandlerSettled(lst, t)
    /\ UNCHANGED <<policy, rt, opLog, fetchSt, boot, probe>>

StakeFind ==
    /\ \E i \in 1..Len(tasks) :
          /\ tasks[i].kind = "stake" /\ tasks[i].pc = "find"
          /\ tasks' = [tasks EXCEPT ![i] =
                          StakeFound(@, TaskEvent(i),
                                     FindOne(store, DecimalString(TaskEvent(i).callId)))]
    /\ UNCHANGED <<policy, rt, opLog, fetchSt, store, lst, boot, probe>>

StakeSave ==
    /\ \E i \in 1..Len(tasks) :
          /\ tasks[i].kind = "stake" /\ tasks[i].pc = "save"
          /\ LET r == Update(store, tasks[i].entity[1])
                 t == StakeSaved(tasks[i], r.ok)
             IN /\ store' = r.store
                /\ tasks' = [tasks EXCEPT ![i] = t]
                /\ lst' = HandlerSettled(lst, t)
    /\ UNCHANGED <<policy, rt, opLog, fetchSt, boot, probe>>

NextHandlers ==
    Deliver \/ CreatedFind \/ CreatedAuth \/ CreatedFetch \/ CreatedSave \/ StakeFind \/ StakeSave

SpecHandlers == InitHandlers /\ [][NextHandlers]_vars

\* ------------------------------------------------ properties of the handlers

\* the rows of table st that carry the on-chain identifier of event e
RowsOf(st, e) ==
    {r \in 1..Len(st) : st[r].callOnchainId = DecimalString(ChainEvents[e].callId)}

\* Handler call j is a replay: an earlier handleCallCreated for the same
\* identifier has persisted its record.
ReplayedCreation(j) ==
    /\ tasks[j].kind = "created"
    /\ \E i \in 1..(j - 1) :
          /\ tasks[i].kind = "created"
          /\ TaskEvent(i).callId = TaskEvent(j).callId
          /\ tasks[i].saves = 1
          /\ tasks[i].result = "ok"

\* C7: a handleCallCreated that replays a creation event whose record was
\* persisted by an earlier call makes no auth validation, no content fetch
\* and no save, settles normally and leaves the table as it found it, with
\* exactly one record for the identifier.
C7_ReplayedCreationIsNoOp ==
    \A j \in 1..Len(tasks) :
        ReplayedCreation(j) =>
            /\ tasks[j].authCalls = 0
            /\ tasks[j].fetchCalls = 0
            /\ tasks[j].saves = 0
            /\ tasks[j].result # "threw"
            /\ tasks[j].pc \in {"find", "done"}
            /\ Cardinality(RowsOf(store, tasks[j].ev)) = 1
            /\ j = Len(tasks) => store = tasks[j].storeBefore

C7_Witness ==
    /\ Len(tasks) >= 2
    /\ tasks[1].ev = 1
    /\ tasks[2].ev = 1
    /\ tasks[1].saves = 1
    /\ tasks[1].fetchCalls = 1
    /\ tasks[2].pc = "done"
    /\ tasks[2].finds = 1
    /\ Len(store) = 1

\* C8: a handleStakeAdded called when no record carries its identifier issues
\* no save, leaves the table as it found it and, once settled, has logged
\* exactly one warning.
C8_UnknownStakeIsNoOp ==
    \A j \in 1..Len(tasks) :
        (tasks[j].kind = "stake" /\ RowsOf(tasks[j].storeBefore, tasks[j].ev) = {}) =>
            /\ tasks[j].saves = 0
            /\ tasks[j].entity = <<>>
            /\ j = Len(tasks) => store = tasks[j].storeBefore
            /\ tasks[j].pc = "done" => (tasks[j].warns = 1 /\ tasks[j].result = "ok")

C8_Witness ==
    /\ Len(tasks) >= 2
    /\ tasks[Len(tasks)].ev = 6
    /\ tasks[Len(tasks)].pc = "done"
    /\ tasks[Len(tasks)].warns = 1
    /\ Len(store) = 1
    /\ store[1].callOnchainId = <<"4", "2">>

\* -------------------------------------------------- the listener on its own

\* The service after onModuleInit has called startListening.
InitListener ==
    /\ policy = NoPolicy
    /\ rt = RetryIdle
    /\ opLog = <<>>
    /\ fetchSt = FetchIdle
    /\ store = <<>>
    /\ tasks = <<>>
    /\ lst = StartListening(ListenerStopped, "ok")
    /\ boot = BootIdle
    /\ probe = NoProbe

\* The provider emits 'error': every listener registered on it runs.
ProviderError ==
    /\ lst.emitted < MaxProviderErrors
    /\ lst' = [EmitProviderError(lst, lst.errorHandlers) EXCEPT !.emitted = @ + 1]
    /\ UNCHANGED <<policy, rt, opLog, fetchSt, store, tasks, boot, probe>>

\* A pending reconnect timer fires.
TimerFires ==
    /\ lst.timers > 0
    /\ \E res \in StartResults :
          /\ res = "ok" => lst.errorHandlers < MaxErrorHandlers
          /\ lst' = ReconnectTimer(lst, res)
    /\ UNCHANGED <<policy, rt, opLog, fetchSt, store, tasks, boot, probe>>

NextListener == ProviderError \/ TimerFires

SpecListener == InitListener /\ [][NextListener]_vars

\* ---------------------------------------------------------- startup, as run

\* what a call of the provider settles with
RpcResults == {OpOk(OpValue), OpFail(PlainError(MsgNetworkTimeout))}

\* the events the two queries of the historical sync may return
CreatedBatches == {<<>>, <<1>>, <<1, 1>>, <<3, 1>>, <<2>>}

StakeBatches == {<<>>, <<4>>, <<6, 5>>}

InitStartup ==
    /\ policy = NoPolicy
    /\ rt = RetryIdle
    /\ opLog = <<>>
    /\ fetchSt = FetchIdle
    /\ store = <<>>
    /\ tasks = <<>>
    /\ lst = ListenerStopped
    /\ boot \in {[BootIdle EXCEPT !.configured = c] : c \in BOOLEAN}
    /\ probe = NoProbe

\* onModuleInit is called.
BootStart ==
    /\ boot.pc = "idle"
    /\ boot' = BootEnter(boot)
    /\ UNCHANGED <<policy, rt, opLog, fetchSt, store, tasks, lst, probe>>

\* A call of the provider made inside withRetry settles.
RpcSettles ==
    /\ \E c \in RpcCalls, res \in RpcResults, u \in JitterDraws :
          /\ boot.calls[c].pc = "call"
          /\ boot' = [boot EXCEPT !.calls[c] = RetryAttempt(@, RpcPolicy(c), res, u)]
    /\ UNCHANGED <<policy, rt, opLog, fetchSt, store, tasks, lst, probe>>

\* A backoff sleep of a withRetry call ends.
RpcWakes ==
    /\ \E c \in RpcCalls :
          /\ boot.calls[c].pc = "sleep"
          /\ boot' = [boot EXCEPT !.calls[c] = RetryWake(@, RpcPolicy(c))]
    /\ UNCHANGED <<policy, rt, opLog, fetchSt, store, tasks, lst, probe>>

\* await Promise.all([getNetwork(), getBlockNumber()]) settles.
ConnectJoin ==
    /\ boot.pc = "connect"
    /\ PromiseAll(boot, {"getNetwork", "getBlockNumber"}) # "pending"
    /\ boot' = Connected(boot)
    /\ UNCHANGED <<policy, rt, opLog, fetchSt, store, tasks, lst, probe>>

\* await this.getBlockNumber() of syncHistoricalEvents settles.
HeightJoin ==
    /\ boot.pc = "height"
    /\ boot.calls["getBlockNumber"].pc = "done"
    /\ boot' = HeightKnown(boot)
    /\ UNCHANGED <<policy, rt, opLog, fetchSt, store, tasks, lst, probe>>

\* await Promise.all of the two queryFilter calls settles.
QueryJoin ==
    /\ boot.pc = "query"
    /\ PromiseAll(boot, {"queryCreated", "queryStake"}) # "pending"
    /\ \E cs \in CreatedBatches, ss \in StakeBatches : boot' = Queried(boot, cs, ss)
    /\ UNCHANGED <<policy, rt, opLog, fetchSt, store, tasks, lst, probe>>

\* The replay loop calls the handler of its next event and awaits it.
ReplayDeliver ==
    /\ boot.pc = "replay"
    /\ Len(tasks) = boot.nextEvent - 1
    /\ boot.nextEvent <= Len(ReplayList(boot))
    /\ LET e == ReplayList(boot)[boot.nextEvent] IN
          tasks' = Append(tasks,
                          NewTask(IF ChainEvents[e].type = "CallCreated" THEN "created" ELSE "stake",
                                  e, store))
    /\ UNCHANGED <<policy, rt, opLog, fetchSt, store, lst, boot, probe>>

\* The awaited handler has settled.
ReplaySettled ==
    /\ boot.pc = "replay"
    /\ Len(tasks) = boot.nextEvent
    /\ tasks[Len(tasks)].pc = "done"
    /\ boot' = Replayed(boot, tasks[Len(tasks)].result = "threw")
    /\ UNCHANGED <<policy, rt, opLog, fetchSt, store, tasks, lst, probe>>

\* Both replay loops have run to their end.
ReplayComplete ==
    /\ boot.pc = "replay"
    /\ Len(tasks) = boot.nextEvent - 1
    /\ boot.nextEvent > Len(ReplayList(boot))
    /\ boot' = ReplayFinished(boot)
    /\ UNCHANGED <<policy, rt, opLog, fetchSt, store, tasks, lst, probe>>

\* syncHistoricalEvents has returned: onModuleInit calls startListening.
BootListen ==
    /\ boot.pc = "synced"
    /\ \E res \in StartResults :
          /\ lst' = StartListening(lst, res)
          /\ boot' = BootListened(boot, res)
    /\ UNCHANGED <<policy, rt, opLog, fetchSt, store, tasks, probe>>

NextStartup ==
    \/ BootStart \/ RpcSettles \/ RpcWakes \/ ConnectJoin \/ HeightJoin \/ QueryJoin
    \/ ReplayDeliver \/ ReplaySettled \/ ReplayComplete \/ BootListen
    \/ CreatedFind \/ CreatedAuth \/ CreatedFetch \/ CreatedSave \/ StakeFind \/ StakeSave

\* Every awaited call settles and every timer fires: a step that can be
\* taken is eventually taken.
SpecStartup == InitStartup /\ [][NextStartup]_vars /\ WF_vars(NextStartup)

\* ------------------------------------------------- live events, as delivered

InitLive ==
    /\ policy = NoPolicy
    /\ rt = RetryIdle
    /\ opLog = <<>>
    /\ fetchSt = FetchIdle
    /\ store = <<>>
    /\ tasks = <<>>
    /\ lst = StartListening(ListenerStopped, "ok")
    /\ boot = BootIdle
    /\ probe = NoProbe

\* The contract emits an event: the callback of every Contract object whose
\* listeners are attached calls the handler, and does not await it.
LiveEvent ==
    /\ lst.contracts > 0
    /\ Len(tasks) + lst.contracts <= MaxDeliveries
    /\ \E e \in 1..Len(ChainEvents) :
          tasks' = tasks \o [k \in 1..lst.contracts |-> LiveTask(e, store)]
    /\ UNCHANGED <<policy, rt, opLog, fetchSt, store, lst, boot, probe>>

\* The connection drops while events are being handled.
LiveProviderError ==
    /\ lst.emitted < MaxLiveProviderErrors
    /\ ProviderError

\* A reconnect attempt is made while events are being handled.
LiveTimerFires ==
    /\ lst.fired < MaxLiveReconnects
    /\ TimerFires

NextLive ==
    \/ LiveEvent \/ LiveProviderError \/ LiveTimerFires
    \/ CreatedFind \/ CreatedAuth \/ CreatedFetch \/ CreatedSave \/ StakeFind \/ StakeSave

SpecLive == InitLive /\ [][NextLive]_vars

\* ------------------------------------------------ properties of the listener

\* C11: a run of consecutive failures schedules at most
\* LISTENER_MAX_RECONNECTS reconnect attempts; once the give-up message has
\* been logged no further reconnect attempt is scheduled and the counter
\* stays at the ceiling, so that there is never an 11th attempt.
C11_ReconnectCeiling ==
    /\ [](lst.sinceReset <= LISTENER_MAX_RECONNECTS)
    /\ [][lst'.fatals > lst.fatals => lst'.sinceReset = LISTENER_MAX_RECONNECTS]_vars
    /\ [][lst.fatals > 0 =>
            /\ lst'.scheduled = lst.scheduled
            /\ lst'.reconnectCount = LISTENER_MAX_RECONNECTS]_vars

\* C12: once scheduleReconnect has taken the give-up branch, startListening
\* is not invoked again and no reconnect timer fires.
C12_GaveUpIsTerminal ==
    [][lst.fatals > 0 => (lst'.starts = lst.starts /\ lst'.fired = lst.fired)]_vars

\* ------------------------------------------------- properties of the startup

\* C13: once the connectivity check of onModuleInit has succeeded,
\* startListening is eventually called, however syncHistoricalEvents ends:
\* every failure inside it (exhausted getBlockNumber, an exhausted
\* queryFilter, a handler that threw) is logged once by its catch block and
\* is not rethrown, so that the catch of onModuleInit is reached only from
\* startListening itself.
C13_ListenerStartsAfterSync ==
    /\ [](boot.syncErrors = boot.syncFailures)
    /\ [](boot.syncFailures + boot.syncComplete <= 1)
    /\ []((boot.connected /\ boot.pc = "offline") => lst.starts = 1)
    /\ []((boot.connected /\ boot.initErrors > 0) => lst.starts = 1)
    /\ (boot.connected ~> lst.starts = 1)

\* the replay of <<3, 1>> ended at the first handler, whose save violated a
\* CHECK constraint; the listener is attached all the same
C13_Witness ==
    /\ boot.pc = "listening"
    /\ boot.syncFailures = 1
    /\ Len(tasks) = 1
    /\ tasks[1].result = "threw"
    /\ tasks[1].saves = 1
    /\ lst.errorHandlers = 1

C13_WitnessHeight ==
    /\ boot.pc = "listening"
    /\ boot.syncFailures = 1
    /\ boot.nextEvent = 0
    /\ boot.calls["queryCreated"] = RetryIdle
    /\ boot.calls["queryStake"] = RetryIdle

C13_WitnessQuery ==
    /\ boot.pc = "listening"
    /\ boot.syncFailures = 1
    /\ boot.calls["queryStake"].pc = "sleep"

\* ---------------------------------------------- properties of live handling

\* the handler calls made by live callbacks that have rejected
LiveFailures == {i \in 1..Len(tasks) : tasks[i].origin = "live" /\ tasks[i].result = "threw"}

\* C14: a step in which the handler call of a live callback rejects writes
\* one error line and changes nothing else of the listener: the contract
\* listeners and the provider's 'error' listeners stay attached, no reconnect
\* is scheduled and reconnectCount keeps its value; every rejection of a live
\* handler call is logged, and as long as the provider has emitted no 'error'
\* the next event is still delivered.
C14_HandlerFailureIsLocal ==
    /\ [](lst.liveErrors = Cardinality(LiveFailures))
    /\ []((LiveFailures # {} /\ lst.emitted = 0 /\ Len(tasks) < MaxDeliveries)
            => ENABLED LiveEvent)
    /\ [][(\E i \in 1..Len(tasks) :
              /\ tasks[i].origin = "live"
              /\ tasks[i].pc # "done"
              /\ tasks'[i].pc = "done"
              /\ tasks'[i].result = "threw")
          => lst' = [lst EXCEPT !.liveErrors = @ + 1]]_vars

\* the first live handler call rejected (auth), and an event emitted after
\* that was delivered and handled by the same, still attached, listener
C14_Witness ==
    /\ Len(tasks) = 2
    /\ tasks[1].origin = "live"
    /\ tasks[1].result = "threw"
    /\ tasks[1].authCalls = 1
    /\ tasks[2].storeBefore = <<>>
    /\ tasks[2].origin = "live"
    /\ tasks[2].pc = "done"
    /\ tasks[2].result = "ok"
    /\ tasks[2].saves = 1
    /\ lst.liveErrors = 1
    /\ lst.contracts = 1
    /\ lst.emitted = 0
    /\ lst.reconnectCount = 0

\* the handleCallCreated calls for the identifier of event e that went past
\* the existence check and issued their save
PastCheck(e) ==
    {i \in 1..Len(tasks) :
        /\ tasks[i].kind = "created"
        /\ TaskEvent(i).callId = ChainEvents[e].callId
        /\ tasks[i].saves = 1}

\* C15: however the handler calls interleave at their awaits, the table never
\* holds two records with the same on-chain identifier: of the creation
\* handlers that passed the existence check for one identifier, at most one
\* has its insert accepted by UQ_calls_call_onchain_id, the others reject.
C15_AtMostOneRecord ==
    \A e \in 1..Len(ChainEvents) :
        /\ Cardinality(RowsOf(store, e)) <= 1
        /\ Cardinality({i \in PastCheck(e) : tasks[i].result = "ok"}) <= 1
        /\ Cardinality({i \in PastCheck(e) : tasks[i].result = "ok"})
              = Cardinality(RowsOf(store, e))

\* two interleaved creations of call 42 both found no record; one insert was
\* accepted, the other violated the unique constraint
C15_Witness ==
    /\ Len(tasks) = 2
    /\ tasks[1].ev = 1
    /\ tasks[2].ev = 1
    /\ tasks[1].storeBefore = <<>>
    /\ tasks[2].storeBefore = <<>>
    /\ tasks[1].saves = 1
    /\ tasks[2].saves = 1
    /\ tasks[1].result = "threw"
    /\ tasks[2].result = "ok"
    /\ Len(store) = 1

\* ------------------------------------------- the default predicate, applied

InitClassify ==
    /\ policy = NoPolicy
    /\ rt = RetryIdle
    /\ opLog = <<>>
    /\ fetchSt = FetchIdle
    /\ store = <<>>
    /\ tasks = <<>>
    /\ lst = ListenerStopped
    /\ boot = BootIdle
    /\ probe \in {[NoProbe EXCEPT !.pc = "ready", !.input = <<msg>>] : msg \in ErrorMessages}

\* defaultSorobanIsRetryable(new Error(message))
Classify ==
    /\ probe.pc = "ready"
    /\ probe' = [probe EXCEPT !.pc = "done",
                              !.output = <<defaultSorobanIsRetryable(PlainError(probe.input[1]))>>]
    /\ UNCHANGED <<policy, rt, opLog, fetchSt, store, tasks, lst, boot>>

NextClassify == Classify

SpecClassify == InitClassify /\ [][NextClassify]_vars

\* the three-digit numbers that stand alone in message s (between word
\* boundaries), as numbers
RECURSIVE DigitValue(_, _)
DigitValue(c, d) == IF DigitChars[d + 1] = c THEN d ELSE DigitValue(c, d + 1)

CodesIn(s) ==
    {100 * DigitValue(s[i], 0) + 10 * DigitValue(s[i + 1], 0) + DigitValue(s[i + 2], 0) :
        i \in {j \in 1..(Len(s) - 2) :
                  /\ IsDigit(s[j]) /\ IsDigit(s[j + 1]) /\ IsDigit(s[j + 2])
                  /\ (j = 1 \/ ~IsWordChar(s[j - 1]))
                  /\ (j + 2 = Len(s) \/ ~IsWordChar(s[j + 3]))}}

\* the signals of the classification: a rate-limit signal, and a 4xx status
\* code that is not of the request-timeout class
RateLimitSignal(s) ==
    \/ 429 \in CodesIn(s)
    \/ Includes(ToLowerCase(s), PatRateLimit)
    \/ Includes(ToLowerCase(s), PatTooMany)

ClientErrorSignal(s) == \E c \in CodesIn(s) : 400 <= c /\ c <= 499 /\ c \notin {408, 425}

\* C16: defaultSorobanIsRetryable answers retryable for a message with a
\* rate-limit signal, else non-retryable for a message with a 4xx status
\* code other than 408 and 425, else retryable.
C16_Classification ==
    probe.pc = "done" =>
        probe.output[1] = (RateLimitSignal(probe.input[1]) \/ ~ClientErrorSignal(probe.input[1]))

\* ------------------------------------------------ a decorated method, called

ClassFakeRpcService == <<"F","a","k","e","R","p","c","S","e","r","v","i","c","e">>

KeyCallWithRetry == <<"c","a","l","l","W","i","t","h","R","e","t","r","y">>

OpFetchOraclePrice == <<"f","e","t","c","h","O","r","a","c","l","e","P","r","i","c","e">>

\* The arguments given to @Retryable: a number of attempts, or options (none,
\* the two of rpc-retry.spec.ts, a label, a predicate of the caller).
DecoratorArgs ==
    {AttemptsArg(n) : n \in 1..MaxAttemptsBound}
    \cup {OptionsArg(NoOptions),
          OptionsArg([NoOptions EXCEPT !.maxAttempts = <<2>>, !.baseDelayMs = <<50>>]),
          OptionsArg([NoOptions EXCEPT !.maxAttempts = <<3>>, !.baseDelayMs = <<500>>,
                                       !.operationName = <<OpFetchOraclePrice>>]),
          OptionsArg([NoOptions EXCEPT !.maxAttempts = <<2>>, !.isRetryable = <<"firstOnly">>])}

\* the arguments of a call of the decorated method
MethodArgs == {<<>>, <<"key">>}

InitDecorated ==
    /\ \E e \in RetryEngines, a \in DecoratorArgs, xs \in MethodArgs :
          /\ probe = [NoProbe EXCEPT !.pc = "called",
                                     !.input = <<[engine |-> e, arg |-> a, args |-> xs]>>]
          /\ policy = RetryablePolicy(e, a, ClassFakeRpcService, KeyCallWithRetry)
    /\ rt = RetryEnter(policy)
    /\ opLog = <<>>
    /\ fetchSt = FetchIdle
    /\ store = <<>>
    /\ tasks = <<>>
    /\ lst = ListenerStopped
    /\ boot = BootIdle

\* () => original.apply(this, args) is called by withRetry and settles.
DecoratedInvoke ==
    /\ rt.pc = "call"
    /\ \E res \in OpResults, u \in JitterDraws :
          /\ rt' = RetryAttempt(rt, policy, res, u)
          /\ opLog' = Append(opLog, res)
    /\ probe' = [probe EXCEPT !.output = Append(@, probe.input[1].args)]
    /\ UNCHANGED <<policy, fetchSt, store, tasks, lst, boot>>

NextDecorated == DecoratedInvoke \/ Wake

SpecDecorated == InitDecorated /\ [][NextDecorated]_vars

\* the attempt budget and the label the argument of the decorator asks for
ExpectedAttempts(arg) ==
    IF arg.isNumber THEN arg.n
    ELSE IF arg.options.maxAttempts = <<>> THEN 4 ELSE arg.options.maxAttempts[1]

ExpectedLabel(arg) ==
    IF ~arg.isNumber /\ arg.options.operationName # <<>>
    THEN arg.options.operationName[1]
    ELSE <<"F","a","k","e","R","p","c","S","e","r","v","i","c","e",".","c","a","l","l","W","i","t","h","R","e","t","r","y">>

\* C17: a call of a method decorated with @Retryable(N) or
\* @Retryable(options) is withRetry over the original method called with the
\* arguments of that call: a success at invocation k + 1 <= maxAttempts is
\* returned after exactly k + 1 invocations of the original, k < maxAttempts
\* retryable failures never end the call, and maxAttempts retryable failures
\* end it with RpcExhaustedError after exactly maxAttempts invocations,
\* maxAttempts being N, or the options' maxAttempts, or 4.
C17_DecoratedIsWithRetry ==
    LET in == probe.input[1]
        n == ExpectedAttempts(in.arg)
    IN /\ rt.invocations = Len(probe.output)
       /\ \A i \in 1..Len(probe.output) : probe.output[i] = in.args
       /\ \A i \in 1..Len(opLog) :
             opLog[i].ok =>
                 /\ i = Len(opLog)
                 /\ rt.pc = "done"
                 /\ rt.outcome = <<Returned(opLog[i].value)>>
                 /\ Len(probe.output) = i
                 /\ i <= n
       /\ (AllFailedRetryable /\ Len(opLog) < n) => rt.pc \in {"call", "sleep"}
       /\ (AllFailedRetryable /\ Len(opLog) >= n) =>
             /\ Len(probe.output) = n
             /\ rt.pc = "done"
             /\ rt.outcome[1].kind = "throw"
             /\ rt.outcome[1].err[1].cls = "RpcExhaustedError"
             /\ rt.outcome[1].err[1].attempts = n
             /\ rt.outcome[1].err[1].operation = ExpectedLabel(in.arg)

\* @Retryable(3) of rpc-retry.util: two transient failures, then the result
C17_Witness ==
    /\ probe.input[1].engine = "util"
    /\ probe.input[1].arg = AttemptsArg(3)
    /\ probe.input[1].args = <<"key">>
    /\ Len(opLog) = 3
    /\ FailedRetryable(1)
    /\ FailedRetryable(2)
    /\ rt.outcome = <<Returned(OpValue)>>
    /\ Len(probe.output) = 3

\* @Retryable({ maxAttempts: 2, baseDelayMs: 50 }) on a method that always fails
C17_WitnessExhausted ==
    /\ probe.input[1].engine = "oracle"
    /\ ~probe.input[1].arg.isNumber
    /\ policy.baseDelayMs = 50
    /\ Len(opLog) = 2
    /\ AllFailedRetryable
    /\ rt.pc = "done"
    /\ rt.outcome[1].err[1].cls = "RpcExhaustedError"

\* C18: fetchIpfsData called with 'QmMockCID' has returned the canned
\* payload as soon as it is called: no GET is issued to any gateway, withRetry
\* is never entered and nothing is logged.
C18_SentinelBypassesEngine ==
    (fetchSt.pc # "idle" /\ fetchSt.cid = CidMock) =>
        /\ fetchSt.pc = "done"
        /\ fetchSt.outcome = <<Returned(MockPayload)>>
        /\ fetchSt.reqOrder = <<>>
        /\ fetchSt.engineCalls = 0
        /\ fetchSt.warns = 0
        /\ rt = RetryIdle
        /\ policy = NoPolicy

C18_Witness ==
    /\ fetchSt.pc = "done"
    /\ fetchSt.cid = CidMock
    /\ fetchSt.outcome[1].kind = "return"
    /\ <<"target", "0.06 BTC">> \in fetchSt.outcome[1].value
    /\ rt.invocations = 0

\* the row of table st that handler call i is about
RowOfTask(st, i) ==
    CHOOSE r \in 1..Len(st) : st[r].callOnchainId = DecimalString(TaskEvent(i).callId)

\* C19: the save of a handleStakeAdded call on an existing record adds the
\* amount of its event to totalStakeYes (position true) or to totalStakeNo
\* (position false) of that record as persisted, and changes no other field
\* of the record and no other record.
C19_StakeTouchesOneAccumulator ==
    [][\A i \in 1..Len(tasks) :
          (/\ tasks[i].kind = "stake"
           /\ tasks[i].pc = "save"
           /\ tasks'[i].pc = "done"
           /\ tasks'[i].result = "ok")
          => LET r == RowOfTask(store, i)
                 amount == FormatUnitsNumber(TaskEvent(i).amount)
             IN store' = [store EXCEPT ![r] =
                             IF TaskEvent(i).position
                             THEN [@ EXCEPT !.totalStakeYes = @ + amount]
                             ELSE [@ EXCEPT !.totalStakeNo = @ + amount]]]_vars

\* C20: the persisted totalStakeYes and totalStakeNo of every record are
\* never negative and never decrease from one state to the next.
C20_AccumulationIsMonotonic ==
    /\ [](\A r \in 1..Len(store) : store[r].totalStakeYes >= 0 /\ store[r].totalStakeNo >= 0)
    /\ [][\A r \in 1..Len(store) :
             /\ r <= Len(store')
             /\ store'[r].totalStakeYes >= store[r].totalStakeYes
             /\ store'[r].totalStakeNo >= store[r].totalStakeNo]_vars

\* ---------------------------------------- properties of handleCallCreated

\* the handleCallCreated calls whose content fetch was made and failed
FetchFailed == {j \in 1..Len(tasks) : tasks[j].kind = "created" /\ tasks[j].errors = 1}

\* C21: a handleCallCreated whose fetchIpfsData rejected (every gateway
\* exhausted) logs the failure and goes on to its save: the entity it saves
\* carries empty metadata, a zero 'no' accumulator and status 'active', and
\* the save is accepted whenever the row satisfies the CHECK constraints of
\* the table, so that the record is in the table when the handler returns.
C21_FetchFailureKeepsCreation ==
    /\ [](\A j \in FetchFailed :
            /\ tasks[j].fetchCalls = 1
            /\ tasks[j].conditionJson = EmptyJson
            /\ tasks[j].pc \in {"save", "done"}
            /\ tasks[j].pc = "done" => tasks[j].saves = 1
            /\ (tasks[j].pc = "done" /\ ChecksHold(NewCall(TaskEvent(j), EmptyJson)))
                  => tasks[j].result = "ok")
    /\ [][\A j \in FetchFailed :
             (tasks[j].pc = "save" /\ tasks'[j].pc = "done")
                => /\ Len(store') = Len(store) + 1
                   /\ store'[Len(store')] =
                         [NewCall(TaskEvent(j), EmptyJson) EXCEPT !.id = Len(store')]
                   /\ store'[Len(store')].conditionJson = {}
                   /\ store'[Len(store')].totalStakeNo = 0
                   /\ store'[Len(store')].status = "active"
                   /\ store'[Len(store')].ipfsCid = TaskEvent(j).ipfsCID]_vars

\* the fetch for call 42 failed on every gateway and its record was saved
C21_Witness ==
    /\ Len(tasks) = 1
    /\ tasks[1].ev = 1
    /\ tasks[1].errors = 1
    /\ tasks[1].fetchCalls = 1
    /\ tasks[1].pc = "done"
    /\ tasks[1].result = "ok"
    /\ Len(store) = 1
    /\ store[1].conditionJson = {}
    /\ store[1].callOnchainId = <<"4", "2">>

\* the handleCallCreated calls that validateUser rejected
AuthRejections ==
    {j \in 1..Len(tasks) :
        tasks[j].kind = "created" /\ tasks[j].authCalls = 1 /\ tasks[j].pc = "done"
        /\ tasks[j].saves = 0 /\ tasks[j].result = "threw"}

\* the handler calls that settled by throwing
Rejections == {j \in 1..Len(tasks) : tasks[j].result = "threw"}

\* C22: a handleCallCreated whose creator the auth collaborator rejects makes
\* no content fetch and no save and leaves the table as it was; and the
\* rejection ends that handler call only: when rejections by the auth
\* collaborator are the only handler failures of a historical sync, every
\* event the two queries returned has been passed to its handler by the time
\* syncHistoricalEvents returns.
C22_AuthRejectionIsLocal ==
    /\ \A j \in AuthRejections :
          /\ tasks[j].fetchCalls = 0
          /\ RowsOf(store, tasks[j].ev) = RowsOf(tasks[j].storeBefore, tasks[j].ev)
          /\ j = Len(tasks) => store = tasks[j].storeBefore
    /\ (/\ boot.pc \in {"synced", "listening", "offline"}
        /\ boot.nextEvent > 0
        /\ Rejections \subseteq AuthRejections)
          => Len(tasks) = Len(ReplayList(boot))

\* ----------------------------------------------- properties of onModuleInit

\* syncHistoricalEvents has been entered and has not returned
Syncing == boot.pc \in {"height", "query", "replay"}

\* the times syncHistoricalEvents has returned, by either of its two ends
SyncReturns == boot.syncFailures + boot.syncComplete

ConnectivityCheck == {"getNetwork", "getBlockNumber"}

\* C23: syncHistoricalEvents is entered only from the connectivity check, and
\* only when both of its calls have returned; it is entered at most once and,
\* once the check has passed, it returns exactly once; startListening is not
\* called while it runs, and when startListening is called it has returned
\* and every handler call of the replay has settled.
C23_StartupOrder ==
    /\ [](Syncing => (boot.connected /\ lst.starts = 0 /\ lst.contracts = 0))
    /\ [](SyncReturns <= 1)
    /\ [](lst.starts > 0 =>
            /\ boot.connected
            /\ SyncReturns = 1
            /\ boot.pc \in {"listening", "offline"}
            /\ AllSettled)
    /\ [][(boot.pc = "connect" /\ boot'.pc # "connect")
            => /\ PromiseAll(boot, ConnectivityCheck) # "pending"
               /\ boot'.pc = "height" <=> PromiseAll(boot, ConnectivityCheck) = "fulfilled"]_vars
    /\ [][(boot'.pc = "height" /\ boot.pc # "height") => (boot.pc = "connect" /\ SyncReturns = 0)]_vars
    /\ [][boot'.pc = "connect" => boot.pc \in {"idle", "connect"}]_vars
    /\ [][lst'.starts > lst.starts => (boot.pc = "synced" /\ lst.starts = 0)]_vars
    /\ (boot.connected ~> SyncReturns = 1)

\* the replay of two events ran to its end before the listener was attached
C23_Witness ==
    /\ boot.pc = "listening"
    /\ boot.syncComplete = 1
    /\ Len(tasks) = 2
    /\ tasks[2].kind = "stake"
    /\ tasks[2].saves = 1
    /\ lst.starts = 1
    /\ lst.contracts = 1

\* C24: when the connectivity check of onModuleInit is rejected (getNetwork
\* or getBlockNumber exhausted its retries) the catch of onModuleInit logs one
\* error line and onModuleInit returns: syncHistoricalEvents is not entered,
\* no handler is called, startListening is not called, then or later.
C24_OfflineWithoutCrash ==
    /\ []((boot.pc = "offline" /\ ~boot.connected) =>
            /\ boot.initErrors = 1
            /\ SyncReturns = 0
            /\ boot.nextEvent = 0
            /\ tasks = <<>>
            /\ store = <<>>
            /\ lst = ListenerStopped)
    /\ [][(boot.pc = "connect" /\ PromiseAll(boot, ConnectivityCheck) = "rejected")
            => /\ boot'.pc \in {"connect", "offline"}
               /\ ~boot'.connected
               /\ lst' = lst
               /\ tasks' = tasks]_vars
    /\ [][boot.pc = "offline" => boot'.pc = "offline"]_vars
    /\ ((boot.pc = "connect" /\ PromiseAll(boot, ConnectivityCheck) = "rejected")
           ~> (boot.pc = "offline" /\ boot.initErrors = 1))

\* getNetwork made its four attempts and the indexer was left offline while
\* getBlockNumber was still being retried
C24_Witness ==
    /\ boot.pc = "offline"
    /\ ~boot.connected
    /\ boot.initErrors = 1
    /\ boot.calls["getBlockNumber"].pc = "sleep"
    /\ lst.starts = 0

\* -------------------------------------- properties of the reconnect schedule

\* C25: at most one reconnect timer is pending at any time.
C25_OneReconnectInFlight == lst.timers <= 1

\* C26: at most one Contract object has its CallCreated / StakeAdded
\* listeners attached, so that an event emitted by the contract is passed to
\* its handler once.
C26_OneSubscriptionSet == lst.contracts <= 1

ReconnectDelays ==
    <<10000, 20000, 40000, 80000, 160000, 300000, 300000, 300000, 300000, 300000>>

\* C28: a call of scheduleReconnect made with reconnectCount = c below the
\* ceiling sets its timer to min(10000 * 2^c, 300000) ms, the value for c
\* before the increment, and leaves reconnectCount at c + 1; the delays are
\* 10000, 20000, 40000, 80000, 160000 and then 300000, they never decrease
\* with c and never exceed 300000; reconnectCount stays within 0..10.
C28_ReconnectDelay ==
    /\ [](lst.reconnectCount \in 0..LISTENER_MAX_RECONNECTS)
    /\ [](lst.lastDelay <= ReconnectDelayCap)
    /\ [](\A c \in 0..(LISTENER_MAX_RECONNECTS - 1) :
            /\ ReconnectDelay(c) = ReconnectDelays[c + 1]
            /\ ReconnectDelay(c) <= ReconnectDelayCap
            /\ c > 0 => ReconnectDelay(c - 1) <= ReconnectDelay(c))
    /\ [][LET calls == lst'.scheduled - lst.scheduled IN
             calls > 0 =>
                /\ lst.reconnectCount + calls <= LISTENER_MAX_RECONNECTS
                /\ lst'.reconnectCount = lst.reconnectCount + calls
                /\ lst'.lastDelay = ReconnectDelays[lst.reconnectCount + calls]]_vars

\* the tenth attempt in a row, scheduled at the cap
C28_Witness ==
    /\ lst.reconnectCount = LISTENER_MAX_RECONNECTS
    /\ lst.sinceReset = LISTENER_MAX_RECONNECTS
    /\ lst.lastDelay = 300000
    /\ lst.fatals = 0

C28_WitnessUncapped ==
    /\ lst.reconnectCount = 5
    /\ lst.lastDelay = 160000

\* a reconnect timer fired in the step and its startListening returned
RestartOk == lst'.fired = lst.fired + 1 /\ lst'.errorHandlers = lst.errorHandlers + 1

\* a reconnect timer fired in the step and its startListening threw
RestartThrew == lst'.fired = lst.fired + 1 /\ lst'.errorHandlers = lst.errorHandlers

\* C29: a timer callback whose startListening returns sets reconnectCount to
\* 0; one whose startListening throws leaves the counter unreset and calls
\* scheduleReconnect, which counts one more attempt or gives up; and the
\* counter rises above 1 only by such a failed start.
C29_ResetOnSuccess ==
    /\ [][RestartOk => (lst'.reconnectCount = 0 /\ lst'.scheduled = lst.scheduled)]_vars
    /\ [][RestartThrew =>
            IF ReachedCeiling(lst.reconnectCount)
            THEN lst'.reconnectCount = lst.reconnectCount /\ lst'.fatals = lst.fatals + 1
            ELSE /\ lst'.reconnectCount = lst.reconnectCount + 1
                 /\ lst'.scheduled = lst.scheduled + 1]_vars
    /\ [][(lst'.reconnectCount > lst.reconnectCount /\ lst'.reconnectCount > 1)
            => RestartThrew]_vars

\* ------------------------------------------- the listener under lasting errors

\* Once LISTENER_MAX_RECONNECTS + 1 'error' listeners are registered, one
\* 'error' takes reconnectCount from 0 to the ceiling whatever their number.
ErrorHandlersThatMatter == LISTENER_MAX_RECONNECTS + 1

\* The fields of the service and of the provider that the listener's code
\* reads: the counter, the registered listeners and the pending timers.  The
\* fields that only record what has happened are not kept, and 'error'
\* listeners beyond those that matter are not told apart.
ListenerFields(l) ==
    [ListenerStopped EXCEPT
        !.reconnectCount = l.reconnectCount,
        !.errorHandlers = IF l.errorHandlers > ErrorHandlersThatMatter
                          THEN ErrorHandlersThatMatter ELSE l.errorHandlers,
        !.contracts = l.contracts,
        !.timers = l.timers]

InitStorm ==
    /\ policy = NoPolicy
    /\ rt = RetryIdle
    /\ opLog = <<>>
    /\ fetchSt = FetchIdle
    /\ store = <<>>
    /\ tasks = <<>>
    /\ lst = ListenerFields(StartListening(ListenerStopped, "ok"))
    /\ boot = BootIdle
    /\ probe = NoProbe

\* The provider emits 'error' while no reconnect is pending.
StormError ==
    /\ lst.timers = 0
    /\ lst' = ListenerFields(EmitProviderError(lst, lst.errorHandlers))
    /\ UNCHANGED <<policy, rt, opLog, fetchSt, store, tasks, boot, probe>>

\* A pending reconnect timer fires.
StormTimer ==
    /\ lst.timers > 0
    /\ \E res \in StartResults : lst' = ListenerFields(ReconnectTimer(lst, res))
    /\ UNCHANGED <<policy, rt, opLog, fetchSt, store, tasks, boot, probe>>

NextStorm == StormError \/ StormTimer

\* A timer that has been set fires.
SpecStorm == InitStorm /\ [][NextStorm]_vars /\ WF_vars(StormTimer)

\* the listener has given up: the counter is at the ceiling and no reconnect
\* is pending
GaveUp == ReachedCeiling(lst.reconnectCount) /\ lst.timers = 0

\* C30: if the provider goes on emitting 'error' for ever, the listener ends
\* in GaveUp and stays there, so that only finitely many reconnect timers are
\* ever set and fire.
C30_StormsAreBounded == ([]<><<StormError>>_vars) => <>[]GaveUp

\* --------------------------------------------- the sleeps of the retry engine

\* C31: withRetry makes its first invocation without a sleep before it; every
\* failed invocation but the last is followed by one warning and one backoff
\* sleep, after which the next invocation is made; nothing is slept after the
\* invocation that ends the call: a call that made m invocations has slept
\* m - 1 times.
C31_SleepsBetweenAttempts ==
    /\ [](rt.pc = "call" =>
            (rt.sleeps = rt.invocations /\ rt.warns = rt.invocations
             /\ rt.attempt = rt.invocations + 1))
    /\ [](rt.pc = "sleep" =>
            (rt.invocations >= 1 /\ rt.sleeps = rt.invocations - 1
             /\ rt.warns = rt.invocations /\ rt.invocations < policy.maxAttempts))
    /\ [](rt.pc = "done" =>
            (rt.invocations >= 1 /\ rt.sleeps = rt.invocations - 1
             /\ rt.warns = rt.sleeps /\ rt.delay = 0))
    /\ [][rt'.invocations > rt.invocations =>
            (rt.pc = "call" /\ rt'.sleeps = rt.sleeps /\ rt'.invocations = rt.invocations + 1)]_vars
    /\ [][rt'.sleeps > rt.sleeps =>
            (rt.pc = "sleep" /\ rt'.pc = "call" /\ rt'.invocations = rt.invocations)]_vars

\* three failed invocations of a budget of three: two sleeps, none at the end
C31_Witness ==
    /\ rt.pc = "done"
    /\ policy.maxAttempts = 3
    /\ rt.invocations = 3
    /\ rt.sleeps = 2
    /\ rt.warns = 2
    /\ rt.outcome[1].kind = "throw"
    /\ rt.outcome[1].err[1].cls = "RpcExhaustedError"

\* ------------------------------------------------- properties of the records

\* row with its two stake accumulators set to those of row0
WithAccumulatorsOf(row, row0) ==
    [row EXCEPT !.totalStakeYes = row0.totalStakeYes, !.totalStakeNo = row0.totalStakeNo]

\* C32: the table holds at most one record per on-chain identifier; a record
\* that is in the table stays in it, at its place, and a step changes nothing
\* of it but totalStakeYes and totalStakeNo: identifier, creator, timestamps
\* and every other column keep the values of the insert.
C32_RecordsAreStable ==
    /\ [](\A r1, r2 \in 1..Len(store) :
             store[r1].callOnchainId = store[r2].callOnchainId => r1 = r2)
    /\ [][/\ Len(store') >= Len(store)
          /\ \A r \in 1..Len(store) : WithAccumulatorsOf(store'[r], store[r]) = store[r]]_vars
    /\ [][\A i \in 1..Len(tasks) :
             (tasks[i].kind = "created" /\ tasks'[i].saves > tasks[i].saves /\ tasks'[i].result = "ok")
                => (/\ Len(store') = Len(store) + 1
                    /\ FindOne(store, DecimalString(TaskEvent(i).callId)) = <<>>)]_vars

\* call 42 was recorded, a StakeAdded for it was handled, and a second
\* CallCreated for it returned at the existence check
C32_Witness ==
    /\ Len(tasks) = 3
    /\ tasks[1].ev = 1 /\ tasks[2].ev = 4 /\ tasks[3].ev = 1
    /\ \A i \in 1..3 : tasks[i].pc = "done" /\ tasks[i].result = "ok"
    /\ tasks[3].saves = 0
    /\ Len(store) = 1
    /\ store[1].totalStakeYes = 8
    /\ store[1].creatorWallet = "0xCreatorA"

\* the handleCallCreated calls for an event whose endTs is not after its startTs
BadWindow == {j \in 1..Len(tasks) :
                 tasks[j].kind = "created" /\ TaskEvent(j).endTs <= TaskEvent(j).startTs}

\* C33: every record of the table has endTs after startTs; the save of a
\* handleCallCreated called for an event whose endTs is not after its startTs
\* is rejected by CHK_calls_end_after_start: the handler throws and the table
\* is left exactly as it was.
C33_EndAfterStart ==
    /\ [](\A r \in 1..Len(store) : store[r].endTs > store[r].startTs)
    /\ [](\A j \in BadWindow :
             /\ tasks[j].pc = "done" => tasks[j].result = "threw"
             /\ \A r \in 1..Len(store) :
                   store[r].callOnchainId # DecimalString(TaskEvent(j).callId))
    /\ [][\A j \in BadWindow : tasks'[j] # tasks[j] => store' = store]_vars

\* the save for call 8 (startTs 300, endTs 100) was issued and rejected,
\* with the record of call 42 in the table
C33_Witness ==
    /\ Len(tasks) = 2
    /\ tasks[1].ev = 1 /\ tasks[1].result = "ok"
    /\ tasks[2].ev = 3 /\ tasks[2].pc = "done" /\ tasks[2].saves = 1
    /\ tasks[2].result = "threw"
    /\ Len(store) = 1

\* ------------------------------------------ properties of the historical replay

\* the handler calls that have not settled
InFlight == {i \in 1..Len(tasks) : tasks[i].pc # "done"}

\* C34: syncHistoricalEvents starts its two queryFilter calls together and
\* awaits them together; of the handler calls of the replay at most one has
\* not settled, they are made in the order of the batch with every
\* CallCreated event before any StakeAdded event, and the first StakeAdded
\* handler is called only when every CallCreated event of the batch has been
\* handled.
C34_SequentialReplay ==
    /\ [](Cardinality(InFlight) <= 1)
    /\ [](\A i \in 1..Len(tasks) :
             /\ i <= Len(ReplayList(boot))
             /\ tasks[i].ev = ReplayList(boot)[i]
             /\ i < Len(tasks) => (tasks[i].pc = "done" /\ tasks[i].result = "ok"))
    /\ [](\A i, j \in 1..Len(tasks) :
             (tasks[i].kind = "stake" /\ tasks[j].kind = "created") => j < i)
    /\ [](\A i \in 1..Len(tasks) :
             tasks[i].kind = "stake" =>
                 Cardinality({j \in 1..Len(tasks) : tasks[j].kind = "created"}) = Len(boot.created))
    /\ [][(boot.pc = "height" /\ boot'.pc = "query")
            => (boot'.calls["queryCreated"].pc = "call" /\ boot'.calls["queryStake"].pc = "call")]_vars
    /\ [][(boot.pc = "query" /\ boot'.pc = "replay")
            => PromiseAll(boot, {"queryCreated", "queryStake"}) = "fulfilled"]_vars

\* both queries were in flight at once, one of them asleep between attempts
C34_WitnessQueries ==
    /\ boot.pc = "query"
    /\ boot.calls["queryCreated"].pc = "sleep"
    /\ boot.calls["queryStake"].pc = "call"
    /\ boot.calls["queryStake"].invocations = 1

\* two CallCreated events were handled, then the handler of the first
\* StakeAdded event was called
C34_Witness ==
    /\ boot.pc = "replay"
    /\ Len(boot.created) = 2
    /\ Len(tasks) = 3
    /\ tasks[1].kind = "created" /\ tasks[2].kind = "created"
    /\ tasks[3].kind = "stake"
    /\ tasks[3].pc = "save"

\* ------------------------------------------- properties of stake accumulation

RECURSIVE StakedUpTo(_, _, _)
\* the sum of the amounts of the StakeAdded events for identifier id and the
\* given position whose handler calls, among the first n, found the record
\* and returned
StakedUpTo(n, id, position) ==
    IF n = 0 THEN 0
    ELSE StakedUpTo(n - 1, id, position)
         + (IF /\ tasks[n].kind = "stake"
               /\ DecimalString(TaskEvent(n).callId) = id
               /\ TaskEvent(n).position = position
               /\ tasks[n].saves = 1
               /\ tasks[n].result = "ok"
            THEN FormatUnitsNumber(TaskEvent(n).amount) ELSE 0)

\* the stake of the CallCreated event that created record row
CreationStake(row) ==
    LET e == CHOOSE e \in 1..Len(ChainEvents) :
                 /\ ChainEvents[e].type = "CallCreated"
                 /\ DecimalString(ChainEvents[e].callId) = row.callOnchainId
    IN FormatUnitsNumber(ChainEvents[e].amount)

\* C36: once the handler calls of the live callbacks have all settled, each
\* record's totalStakeYes is the stake of its creation plus the amounts of all
\* 'yes' StakeAdded events handled for it, and its totalStakeNo the sum of all
\* 'no' amounts, however the calls interleaved.
C36_NoLostUpdate ==
    AllSettled =>
        \A r \in 1..Len(store) :
            /\ store[r].totalStakeYes =
                  CreationStake(store[r]) + StakedUpTo(Len(tasks), store[r].callOnchainId, TRUE)
            /\ store[r].totalStakeNo = StakedUpTo(Len(tasks), store[r].callOnchainId, FALSE)

\* handler call j handles a StakeAdded event that an earlier call, already
\* settled, has added to its record
Redelivered(j) ==
    /\ tasks[j].kind = "stake"
    /\ \E i \in 1..(j - 1) :
          /\ tasks[i].ev = tasks[j].ev
          /\ tasks[i].pc = "done"
          /\ tasks[i].saves = 1
          /\ tasks[i].result = "ok"

\* C37: a handleStakeAdded called for an event that was already handled (a
\* second syncHistoricalEvents over the same history, a re-delivered event)
\* leaves totalStakeYes and totalStakeNo of every record as they were.
C37_StakeIngestionIsIdempotent ==
    [][\A j \in 1..Len(tasks) :
          (Redelivered(j) /\ tasks'[j] # tasks[j]) => store' = store]_vars

\* ------------------------------------------------ the two engines, compared

RECURSIVE RunRetry(_, _, _, _)
\* withRetry run from state s over the outcomes outs of its invocations, with
\* no jitter drawn: the invocations made, the delays slept and what the call
\* settled with (nothing, while the outcomes have not settled it)
RunRetry(s, pol, outs, delays) ==
    IF s.pc = "done"
    THEN [invocations |-> s.invocations, delays |-> delays, outcome |-> s.outcome]
    ELSE IF s.pc = "sleep"
    THEN RunRetry(RetryWake(s, pol), pol, outs, Append(delays, s.delay))
    ELSE IF outs = <<>>
    THEN [invocations |-> s.invocations, delays |-> delays, outcome |-> <<>>]
    ELSE RunRetry(RetryAttempt(s, pol, Head(outs), 0), pol, Tail(outs), delays)

\* the policy pol given to the copy of the engine named engine
PolicyFor(engine, pol) == [pol EXCEPT !.engine = engine]

\* the sequences of n outcomes of the operation
OutcomeSequences(n) == [1..n -> OpResults]

\* A policy that both copies accept (no isRetryable) and as many outcomes as
\* the policy allows invocations.
InitEngines ==
    /\ policy \in {pol \in RetryPolicies : pol.engine = "util" /\ pol.isRetryable = "none"}
    /\ rt = RetryIdle
    /\ opLog = <<>>
    /\ fetchSt = FetchIdle
    /\ store = <<>>
    /\ tasks = <<>>
    /\ lst = ListenerStopped
    /\ boot = BootIdle
    /\ probe \in {[NoProbe EXCEPT !.input = outs] : outs \in OutcomeSequences(policy.maxAttempts)}

\* Both copies are called with the policy and run over the same outcomes.
RunBoth ==
    /\ probe.pc = "idle"
    /\ probe' = [probe EXCEPT
                    !.pc = "done",
                    !.output = [e \in RetryEngines |->
                                   RunRetry(RetryEnter(PolicyFor(e, policy)),
                                            PolicyFor(e, policy), probe.input, <<>>)]]
    /\ UNCHANGED <<policy, rt, opLog, fetchSt, store, tasks, lst, boot>>

NextEngines == RunBoth

SpecEngines == InitEngines /\ [][NextEngines]_vars

\* how a withRetry call ended: with the value, exhausted, or non-retryable
OutcomeKind(run) ==
    IF run.outcome = <<>> THEN "pending"
    ELSE IF run.outcome[1].kind = "return" THEN "return"
    ELSE run.outcome[1].err[1].cls

\* C39: called with the same policy and run over the same outcomes of the
\* operation, the withRetry of oracle.service.ts and the withRetry of
\* rpc-retry.util.ts make the same number of invocations, sleep the same
\* un-jittered delays and end the same way, also when an outcome is an error
\* flagged non-retryable.
C39_EnginesAgree ==
    probe.pc = "done" =>
        /\ probe.output["oracle"].invocations = probe.output["util"].invocations
        /\ probe.output["oracle"].delays = probe.output["util"].delays
        /\ OutcomeKind(probe.output["oracle"]) = OutcomeKind(probe.output["util"])

\* ----------------------------------------------------------- fetchPriceSafe

ClassOracleService == <<"O","r","a","c","l","e","S","e","r","v","i","c","e">>

KeyFetchPrice == <<"f","e","t","c","h","P","r","i","c","e">>

OpFetchPrice == <<"o","r","a","c","l","e",":","f","e","t","c","h","P","r","i","c","e">>

\* @Retryable({ maxAttempts: 4, baseDelayMs: 1_000, operationName: 'oracle:fetchPrice' })
FetchPriceArg ==
    OptionsArg([NoOptions EXCEPT !.maxAttempts = <<4>>, !.baseDelayMs = <<1000>>,
                                 !.operationName = <<OpFetchPrice>>])

\* What a call of fetchPriceSafe settles with: a price, null (no price), or
\* a rejection.
SafeReturned(price) == [kind |-> "return", price |-> price, err |-> <<>>]

SafeThrew(e) == [kind |-> "throw", price |-> <<>>, err |-> <<e>>]

\* FetchPriceSafe without the instanceof branch of its catch (faulty variant)
FetchPriceSafeRethrows(outcome) ==
    IF outcome.kind = "return"
    THEN SafeReturned(<<outcome.value>>)
    ELSE SafeThrew(outcome.err[1])

\* try { return await this.fetchPrice(tokenAddress) }
\* catch (err) { if (err instanceof RpcExhaustedError) return null; throw err }
\* applied to what the decorated fetchPrice settled with
FetchPriceSafe(outcome) ==
    IF outcome.kind = "return"
    THEN SafeReturned(<<outcome.value>>)
    ELSE IF outcome.err[1].cls = "RpcExhaustedError"
    THEN SafeReturned(<<>>)
    ELSE SafeThrew(outcome.err[1])

\* fetchPriceSafe has called the decorated fetchPrice, which has entered the
\* withRetry of oracle.service.ts.
InitPrice ==
    /\ policy = RetryablePolicy("oracle", FetchPriceArg, ClassOracleService, KeyFetchPrice)
    /\ rt = RetryEnter(policy)
    /\ opLog = <<>>
    /\ fetchSt = FetchIdle
    /\ store = <<>>
    /\ tasks = <<>>
    /\ lst = ListenerStopped
    /\ boot = BootIdle
    /\ probe = [NoProbe EXCEPT !.pc = "called"]

\* The body of fetchPrice runs once and settles: the price, or whatever the
\* request, the status check or the parsing threw.
PriceAttempt ==
    /\ probe.pc = "called"
    /\ rt.pc = "call"
    /\ \E res \in OpResults, u \in JitterDraws :
          /\ rt' = RetryAttempt(rt, policy, res, u)
          /\ opLog' = Append(opLog, res)
    /\ UNCHANGED <<policy, fetchSt, store, tasks, lst, boot, probe>>

\* The backoff sleep of withRetry ends.
PriceWake ==
    /\ probe.pc = "called"
    /\ rt.pc = "sleep"
    /\ rt' = RetryWake(rt, policy)
    /\ UNCHANGED <<policy, opLog, fetchSt, store, tasks, lst, boot, probe>>

\* fetchPrice has settled; fetchPriceSafe returns or rethrows.
PriceSettle ==
    /\ probe.pc = "called"
    /\ rt.pc = "done"
    /\ probe' = [probe EXCEPT !.pc = "done", !.output = <<FetchPriceSafe(rt.outcome[1])>>]
    /\ UNCHANGED <<policy, rt, opLog, fetchSt, store, tasks, lst, boot>>

NextPrice == PriceAttempt \/ PriceWake \/ PriceSettle

SpecPrice == InitPrice /\ [][NextPrice]_vars

\* every run of the body of fetchPrice so far threw
AllAttemptsFailed == \A i \in DOMAIN opLog : ~opLog[i].ok

\* C40: whatever the runs of the body of fetchPrice settle with, fetchPriceSafe
\* returns and never throws; it returns null exactly when 4 runs were made
\* and all of them failed, and otherwise the price of the run that succeeded.
C40_SafeNeverThrows ==
    probe.pc = "done" =>
        /\ probe.output[1].kind = "return"
        /\ probe.output[1].price = <<>> <=> (Len(opLog) = 4 /\ AllAttemptsFailed)
        /\ probe.output[1].price # <<>> =>
              /\ opLog[Len(opLog)].ok
              /\ probe.output[1].price = <<opLog[Len(opLog)].value>>

\* fetchPriceSafe returned null after 4 failed runs, one of which threw a
\* value that is not an Error and one an error flagged non-retryable
C40_Witness ==
    /\ probe.pc = "done"
    /\ probe.output[1] = SafeReturned(<<>>)
    /\ Len(opLog) = 4
    /\ \E i, j \in DOMAIN opLog :
          /\ ~opLog[i].ok /\ ~opLog[i].thrown[1].isError
          /\ ~opLog[j].ok /\ opLog[j].thrown[1].cls = "RpcNonRetryableError"

\* ----------------------------------------------------------- sendAndConfirm

ClassSorobanRpcClient == <<"S","o","r","o","b","a","n","R","p","c","C","l","i","e","n","t">>

KeyGetTransaction == <<"g","e","t","T","r","a","n","s","a","c","t","i","o","n">>

OpGetTransaction == <<"s","o","r","o","b","a","n",":","g","e","t","T","r","a","n","s","a","c","t","i","o","n">>

\* @Retryable({ maxAttempts: 10, baseDelayMs: 2_000, factor: 1.5,
\*              maxDelayMs: 15_000, operationName: 'soroban:getTransaction' })
GetTransactionArg ==
    OptionsArg([NoOptions EXCEPT !.maxAttempts = <<10>>, !.baseDelayMs = <<2000>>,
                                 !.factor = <<<<3, 2>>>>, !.maxDelayMs = <<15000>>,
                                 !.operationName = <<OpGetTransaction>>])

\* the hash of the submitted transaction (shortened)
TxHash == <<"a","4","0","0","7","f">>

\* `Transaction ${hash} still pending (NOT_FOUND)`
MsgStillPending ==
    <<"T","r","a","n","s","a","c","t","i","o","n"," ">> \o TxHash \o
    <<" ","s","t","i","l","l"," ","p","e","n","d","i","n","g"," ","(","N","O","T","_","F","O","U","N","D",")">>

\* What one run of the body of getTransaction settles with: a final status,
\* the Error thrown on NOT_FOUND, or a rejection of this.rpc.getTransaction
\* (the transport failing, or the server answering with a 4xx code).
PollResults ==
    {OpOk(OpValue), OpFail(PlainError(MsgStillPending)),
     OpFail(PlainError(MsgNetworkTimeout)), OpFail(PlainError(MsgHttp400))}

\* the calls of this.getTransaction that the loop may make before the
\* deadline is passed
MaxConfirmCalls == 3

\* the status query made by a poll: whether it is the first one, or follows
\* the one before it after a backoff sleep, or at once
PollGap(events) ==
    IF events = <<>> THEN "first"
    ELSE IF \E i \in DOMAIN events : events[i] = "sleep" THEN "backoff"
    ELSE "none"

\* sendAndConfirm has been called: probe.input lists the rejections of
\* this.getTransaction that the loop has swallowed, opLog what happened since
\* the latest status query, probe.output how the latest status query followed
\* the one before it.
InitConfirm ==
    /\ policy = RetryablePolicy("util", GetTransactionArg, ClassSorobanRpcClient, KeyGetTransaction)
    /\ rt = RetryIdle
    /\ opLog = <<>>
    /\ fetchSt = FetchIdle
    /\ store = <<>>
    /\ tasks = <<>>
    /\ lst = ListenerStopped
    /\ boot = BootIdle
    /\ probe = [NoProbe EXCEPT !.pc = "send"]

\* const sendResult = await this.sendTransaction(transaction): it rejects, or
\* resolves with status ERROR (sendAndConfirm throws), or with another status
\* (the deadline is computed and the loop is entered).
ConfirmSend ==
    /\ probe.pc = "send"
    /\ \E sent \in {"rejected", "ERROR", "PENDING"} :
          probe' = [probe EXCEPT !.pc = IF sent = "PENDING" THEN "loop" ELSE "threw"]
    /\ UNCHANGED <<policy, rt, opLog, fetchSt, store, tasks, lst, boot>>

\* while (Date.now() < deadline): the deadline is passed and sendAndConfirm
\* throws, or it is not and this.getTransaction is called, entering withRetry.
ConfirmLoop ==
    /\ probe.pc = "loop"
    /\ \/ /\ probe' = [probe EXCEPT !.pc = "timedOut"]
          /\ UNCHANGED rt
       \/ /\ Len(probe.input) < MaxConfirmCalls
          /\ probe' = [probe EXCEPT !.pc = "polling"]
          /\ rt' = RetryEnter(policy)
    /\ UNCHANGED <<policy, opLog, fetchSt, store, tasks, lst, boot>>

\* The body of getTransaction runs: one status query, which settles.
ConfirmPoll ==
    /\ probe.pc = "polling"
    /\ rt.pc = "call"
    /\ \E res \in PollResults, u \in JitterDraws :
          rt' = RetryAttempt(rt, policy, res, u)
    /\ probe' = [probe EXCEPT !.output = <<[gap |-> PollGap(opLog), caught |-> probe.input]>>]
    /\ opLog' = <<"poll">>
    /\ UNCHANGED <<policy, fetchSt, store, tasks, lst, boot>>

\* The backoff sleep of withRetry ends.
ConfirmWake ==
    /\ probe.pc = "polling"
    /\ rt.pc = "sleep"
    /\ rt' = RetryWake(rt, policy)
    /\ opLog' = Append(opLog, "sleep")
    /\ UNCHANGED <<policy, fetchSt, store, tasks, lst, boot, probe>>

\* this.getTransaction has settled: its value is returned, or its rejection
\* is swallowed by the empty catch and the loop condition is tested again.
ConfirmSettle ==
    /\ probe.pc = "polling"
    /\ rt.pc = "done"
    /\ IF rt.outcome[1].kind = "return"
       THEN /\ probe' = [probe EXCEPT !.pc = "returned"]
            /\ UNCHANGED opLog
       ELSE /\ probe' = [probe EXCEPT !.pc = "loop",
                                      !.input = Append(@, rt.outcome[1].err[1].cls)]
            /\ opLog' = Append(opLog, "caught")
    /\ UNCHANGED <<policy, rt, fetchSt, store, tasks, lst, boot>>

NextConfirm == ConfirmSend \/ ConfirmLoop \/ ConfirmPoll \/ ConfirmWake \/ ConfirmSettle

SpecConfirm == InitConfirm /\ [][NextConfirm]_vars

\* C35: in sendAndConfirm every status query but the first follows the one
\* before it after a backoff sleep, whatever the earlier query raised: a
\* retryable error, a non-retryable one, or the error of an exhausted budget.
C35_BackoffBetweenPolls ==
    probe.output # <<>> => probe.output[1].gap # "none"

\* ------------------------------------- the contract's events, as they occur

\* the events the contract emits in one run
MaxEmitted == 3

\* An event of the contract's log: which event it is and how many times it
\* has been passed to its handler.  Each event is in a block of its own, so
\* the block height is the length of the log.
Emitted(e, handled) == [ev |-> e, handled |-> handled]

\* queryFilter(contract, name, 0, currentBlock) for both names, and the two
\* replay loops: the handler is called for each event up to currentBlock
ReplayUpTo(log, currentBlock) ==
    [i \in DOMAIN log |->
        IF i <= currentBlock THEN [log[i] EXCEPT !.handled = @ + 1] ELSE log[i]]

\* onModuleInit has connected and calls syncHistoricalEvents; opLog is the
\* contract's log, probe.input the block height read by the sync.
InitChain ==
    /\ policy = NoPolicy
    /\ rt = RetryIdle
    /\ opLog \in {<<>>, <<Emitted(1, 0)>>}
    /\ fetchSt = FetchIdle
    /\ store = <<>>
    /\ tasks = <<>>
    /\ lst = ListenerStopped
    /\ boot = BootIdle
    /\ probe = [NoProbe EXCEPT !.pc = "sync"]

\* The contract emits an event: the callback of every Contract object whose
\* listeners are attached calls the handler.
ContractEmits ==
    /\ Len(opLog) < MaxEmitted
    /\ \E e \in 1..Len(ChainEvents) : opLog' = Append(opLog, Emitted(e, lst.contracts))
    /\ UNCHANGED <<policy, rt, fetchSt, store, tasks, lst, boot, probe>>

\* const currentBlock = await this.getBlockNumber()
ChainHeight ==
    /\ probe.pc = "sync"
    /\ probe' = [probe EXCEPT !.pc = "height", !.input = <<Len(opLog)>>]
    /\ UNCHANGED <<policy, rt, opLog, fetchSt, store, tasks, lst, boot>>

\* The two queries up to currentBlock and the replay of what they returned.
ChainReplay ==
    /\ probe.pc = "height"
    /\ opLog' = ReplayUpTo(opLog, probe.input[1])
    /\ probe' = [probe EXCEPT !.pc = "synced"]
    /\ UNCHANGED <<policy, rt, fetchSt, store, tasks, lst, boot>>

\* this.startListening() in onModuleInit
ChainListen ==
    /\ probe.pc = "synced"
    /\ \E res \in StartResults :
          /\ lst' = StartListening(lst, res)
          /\ probe' = [probe EXCEPT !.pc = IF res = "ok" THEN "listening" ELSE "offline"]
    /\ UNCHANGED <<policy, rt, opLog, fetchSt, store, tasks, boot>>

\* The connection drops after the listener was started.
ChainProviderError ==
    /\ probe.pc = "listening"
    /\ LiveProviderError

NextChain ==
    ContractEmits \/ ChainHeight \/ ChainReplay \/ ChainListen
        \/ ChainProviderError \/ LiveTimerFires

SpecChain == InitChain /\ [][NextChain]_vars

\* the events of the log that were never passed to their handler
Unhandled == {i \in DOMAIN opLog : opLog[i].handled = 0}

\* C38: no event of the contract is lost: once the listener is attached
\* (after the historical sync, or again after a reconnect) every event the
\* contract has emitted has been passed to its handler at least once,
\* including the events emitted after the sync read the block height and
\* before the listener attached, and those emitted between a transport error
\* and the reconnect.
C38_NoEventLost ==
    (probe.pc = "listening" /\ lst.contracts > 0) => Unhandled = {}

====
